---- MODULE Spec2Model ----
(***************************************************************************)
(* Charge controller for 12 V GEL / lithium batteries (ESP32 firmware).    *)
(*                                                                         *)
(* The repository holds two complete firmware main files that are linked   *)
(* with the same web server file (src/unnamed/part_001 lines 1-513):       *)
(*   P1  src/unnamed/part_001 lines 515-1826: 1 s scheduler, 8 h load-off  *)
(*       clamp, panel-current confirmations, immediate Error handling;     *)
(*   P2  src/unnamed/part_002: loop with delay(1000), 5-sample             *)
(*       confirmation of over-voltage / over-temperature, Error handling   *)
(*       with a 2 s recheck.  src/cargador_gel_litio.ino has the same      *)
(*       command handlers as P2.                                           *)
(* The variable build says which of the two runs.                          *)
(*                                                                         *)
(* Units: voltages in centivolts (12.88 V = 1288), temperatures in degrees *)
(* Celsius, currents in mA, times in ms, accumulated charge in micro-Ah,   *)
(* state of charge in 1/1000 percent, hour quantities in seconds.          *)
(***************************************************************************)
EXTENDS Integers, Sequences, FiniteSets, TLC

\* ---------------------------------------------------------------- bounds
\* The clock stops advancing at MaxNow.
MaxNow == 3000
\* The durations one loop iteration may take (delay(1000) plus I/O; the watchdog
\* allows less than WDT_TIMEOUT = 15 s).
LoopDurations == {1000}

\* ---------------------------------------------------------------- sampled inputs
\* Battery voltage readings (centivolts).
Volts == {1150, 1230, 1380, 1500, 1510}
\* Temperature readings (Celsius).
Temps == {25, 95}
\* Averaged panel current readings (mA); getAverageCurrent drops every sample
\* outside [0, maxAllowedCurrent], so the average is within that range.
PanelCurrents == {0, 3600}
\* Averaged load current readings (mA).
LoadCurrents == {0}

\* ---------------------------------------------------------------- program constants
P1 == "part_001"
P2 == "part_002"
Builds == {P1, P2}

BULK_CHARGE == "BULK_CHARGE"
ABSORPTION_CHARGE == "ABSORPTION_CHARGE"
FLOAT_CHARGE == "FLOAT_CHARGE"
ERROR == "ERROR"
ChargeState == {BULK_CHARGE, ABSORPTION_CHARGE, FLOAT_CHARGE, ERROR}

HIGH == TRUE
LOW == FALSE

LVD == 1200
LVR == 1250
TEMP_THRESHOLD_SHUTDOWN == 90
maxBatteryVoltageAllowed == 1500
chargedBatteryRestVoltage == 1288
reEnterBulkVoltage == 1260
reEnterTime == 30000
\* maxAbsorptionHours = 1.0 h, in seconds
maxAbsorptionHours == 3600
SAVE_INTERVAL == 300000
MAIN_LOOP_INTERVAL == 1000
MAX_LOAD_OFF_DURATION == 28800000
MAX_LOAD_OFF_SECONDS == 28800
\* P2 (and the .ino) accept TOGGLE_LOAD up to 12 h
P2_MAX_TOGGLE_SECONDS == 43200
WEB_MAX_TOGGLE_SECONDS == 300
CHECK_INTERVAL == 1000
MAX_ERROR_COUNT == 5
TEMP_CHECK_INTERVAL == 2000
MAX_TEMP_ERROR_COUNT == 5
ERROR_CHECK_INTERVAL == 2000
LOW_CURRENT_TIMEOUT == 3000
REQUIRED_CONFIRMATIONS == 5
CONFIRMATION_INTERVAL == 50
\* millis() at the end of setup(): setup starts with delay(1000)
BootTime == 1000

\* ---------------------------------------------------------------- arithmetic helpers
Min(a, b) == IF a < b THEN a ELSE b
Max(a, b) == IF a > b THEN a ELSE b

\* Arduino constrain(x, lo, hi)
constrain(x, lo, hi) == IF x < lo THEN lo ELSE IF x > hi THEN hi ELSE x

\* Stand-in for an unsigned 32-bit difference that wrapped around: it is larger
\* than every interval the firmware compares a difference with.
UWrapped == 2147483647

\* millis() - stamp in unsigned long arithmetic
USub(a, b) == IF a >= b THEN a - b ELSE UWrapped

\* A 32-bit long converted to unsigned long, as the pair of its 16-bit halves
\* (the value itself, up to 2^32 - 1, does not fit the model checker's integers).
ToUnsignedLong(x) == [hi |-> (x \div 65536) % 65536, lo |-> x % 65536]

\* a > m for an unsigned long a (as halves) and a small constant m >= 0
UGreater(a, m) == a.hi > m \div 65536 \/ (a.hi = m \div 65536 /\ a.lo > m % 65536)

\* a < m for an unsigned long a (as halves) and a small constant m >= 0
ULess(a, m) == a.hi < m \div 65536 \/ (a.hi = m \div 65536 /\ a.lo < m % 65536)

\* the value of an unsigned long known to be small
UValue(a) == a.hi * 65536 + a.lo

\* ---------------------------------------------------------------- state
\* build: which main file runs; now: millis(); g: the firmware's globals and
\* function-level statics, with the load pin and the PWM channel register;
\* prefs: the Preferences namespace "charger".
VARIABLES build, now, g, prefs

vars == <<build, now, g, prefs>>

\* ---------------------------------------------------------------- persistence
\* The Preferences namespace is a function from the keys written so far to
\* their values.
GetPref(p, key, default) == IF key \in DOMAIN p THEN p[key] ELSE default

PutPref(p, key, value) ==
  [k \in DOMAIN p \cup {key} |-> IF k = key THEN value ELSE p[k]]

\* the namespace before the first write
FreshPrefs == [k \in {} |-> 0]

\* ---------------------------------------------------------------- PWM regulator
\* setPWM(pwmValue): the value handed to ledcWrite
setPWM(pwmValue) == 255 - constrain(pwmValue, 0, 255)

\* a faulty adjustPWM, which lacks the constrain of currentPWM
adjustPWM_NoConstrain(s, step) ==
  LET d == s.currentPWM + step
  IN  [s EXCEPT !.currentPWM = d, !.ledcDuty = 255 - d, !.adjustCalls = @ + 1]

\* adjustPWM(step) on the globals s: currentPWM += step; constrain; setPWM
adjustPWM(s, step) ==
  LET d == constrain(s.currentPWM + step, 0, 255)
  IN  [s EXCEPT !.currentPWM = d, !.ledcDuty = setPWM(d), !.adjustCalls = @ + 1]

\* bulkControl with the sign of the step below the target inverted
bulkControl_LowersBelowTarget(s, batteryVoltage, chargeCurrent) ==
  IF chargeCurrent > s.maxAllowedCurrent THEN adjustPWM(s, -5)
  ELSE IF batteryVoltage < s.bulkVoltage THEN adjustPWM(s, -1)
  ELSE adjustPWM(s, 1)

bulkControl(s, batteryVoltage, chargeCurrent) ==
  IF chargeCurrent > s.maxAllowedCurrent THEN adjustPWM(s, -5)
  ELSE IF batteryVoltage < s.bulkVoltage THEN adjustPWM(s, 1)
  ELSE adjustPWM(s, -1)

absorptionControl(s, batteryVoltage, chargeCurrent) ==
  IF batteryVoltage > s.absorptionVoltage THEN adjustPWM(s, -1)
  ELSE IF batteryVoltage < s.absorptionVoltage
       THEN IF chargeCurrent < s.maxAllowedCurrent THEN adjustPWM(s, 1)
            ELSE adjustPWM(s, -2)
       ELSE s

absorptionControlToLitium(s, chargeCurrent) ==
  IF chargeCurrent > s.batteryToLoadCurrent THEN adjustPWM(s, -3)
  ELSE adjustPWM(s, 1)

floatControl(s, batteryVoltage) ==
  IF batteryVoltage > s.floatVoltage THEN adjustPWM(s, -1)
  ELSE IF batteryVoltage < s.floatVoltage THEN adjustPWM(s, 1)
  ELSE s

\* ---------------------------------------------------------------- coulomb counter
\* fLerp with x in centivolts and y in 1/1000 percent
fLerp(x, x0, x1, y0, y1) ==
  IF x1 = x0 THEN y0 ELSE y0 + ((x - x0) * (y1 - y0)) \div (x1 - x0)

\* getSOCFromVoltage without its lowest segment (11.5 V .. 11.8 V)
getSOCFromVoltage_NoLowSegment(voltage) ==
  IF voltage >= 1440 THEN 100000
  ELSE IF voltage >= 1380 THEN fLerp(voltage, 1380, 1440, 95000, 100000)
  ELSE IF voltage >= 1320 THEN fLerp(voltage, 1320, 1380, 80000, 95000)
  ELSE IF voltage >= 1280 THEN fLerp(voltage, 1280, 1320, 60000, 80000)
  ELSE IF voltage >= 1240 THEN fLerp(voltage, 1240, 1280, 40000, 60000)
  ELSE IF voltage >= 1200 THEN fLerp(voltage, 1200, 1240, 20000, 40000)
  ELSE IF voltage >= 1180 THEN fLerp(voltage, 1180, 1200, 10000, 20000)
  ELSE 0

\* getSOCFromVoltage of P2, in 1/1000 percent
getSOCFromVoltage(voltage) ==
  IF voltage >= 1440 THEN 100000
  ELSE IF voltage >= 1380 THEN fLerp(voltage, 1380, 1440, 95000, 100000)
  ELSE IF voltage >= 1320 THEN fLerp(voltage, 1320, 1380, 80000, 95000)
  ELSE IF voltage >= 1280 THEN fLerp(voltage, 1280, 1320, 60000, 80000)
  ELSE IF voltage >= 1240 THEN fLerp(voltage, 1240, 1280, 40000, 60000)
  ELSE IF voltage >= 1200 THEN fLerp(voltage, 1200, 1240, 20000, 40000)
  ELSE IF voltage >= 1180 THEN fLerp(voltage, 1180, 1200, 10000, 20000)
  ELSE IF voltage >= 1150 THEN fLerp(voltage, 1150, 1180, 5000, 10000)
  ELSE 0

\* accumulated charge (micro-Ah) of a state of charge (1/1000 percent)
AhOfSOC(soc, capacity) == soc * capacity * 10

\* state of charge (1/1000 percent) of an accumulated charge (micro-Ah)
SOCOfAh(ah, capacity) == ah \div (capacity * 10)

\* batteryCapacity * 1.1 in micro-Ah
OverchargeLimit(capacity) == capacity * 1100000

\* saveChargingState(): flush every SAVE_INTERVAL
saveChargingState(sp, t) ==
  IF USub(t, sp.s.lastSaveTime) > SAVE_INTERVAL
  THEN [s |-> [sp.s EXCEPT !.lastSaveTime = t],
        p |-> PutPref(PutPref(sp.p, "accumulatedAh", sp.s.accumulatedAh),
                      "bulkStartTime", sp.s.bulkStartTime)]
  ELSE sp

\* updateAhTracking() of P1: unguarded integration
P1_updateAhTracking(s, t) ==
  LET dt == USub(t, s.lastUpdateTime)
      ahChange == ((s.panelToBatteryCurrent - s.batteryToLoadCurrent) * dt) \div 3600
  IN  [s EXCEPT !.accumulatedAh = @ + ahChange, !.lastUpdateTime = t]

\* updateAhTracking() of P2: guarded, rate-limited, clamped integration
P2_updateAhTracking(s, t) ==
  LET dt == USub(t, s.lastUpdateTime)
      chargeCurrent == Max(s.panelToBatteryCurrent, 0)
      dischargeCurrent == Max(s.batteryToLoadCurrent, 0)
      raw == ((chargeCurrent - dischargeCurrent) * dt) \div 3600
      \* maxChange = batteryCapacity / 3600 * deltaHours * 3600 (Ah), in micro-Ah
      maxChange == (s.batteryCapacity * dt * 10) \div 36
      ahChange == IF raw > maxChange THEN maxChange
                  ELSE IF -raw > maxChange THEN -maxChange ELSE raw
  IN  IF s.lastUpdateTime = 0 THEN [s EXCEPT !.lastUpdateTime = t]
      ELSE IF dt > 3600000 THEN [s EXCEPT !.lastUpdateTime = t]
      \* deltaHours < 0.0001
      ELSE IF dt < 360 THEN s
      ELSE [s EXCEPT !.accumulatedAh =
                        constrain(@ + ahChange, 0, OverchargeLimit(s.batteryCapacity)),
                     !.lastUpdateTime = t]

\* resetChargingCycle() of P1
P1_resetChargingCycle(sp, t) ==
  saveChargingState(
    [sp EXCEPT !.s.accumulatedAh =
       IF sp.s.currentState = FLOAT_CHARGE THEN sp.s.batteryCapacity * 950000 ELSE 0], t)

\* a resetChargingCycle() that overwrites the charge on the way to Float, as
\* the one of P1 does
P2_resetChargingCycle_ForcesFull(sp, batteryVoltage, t) ==
  LET s == sp.s
      cap == s.batteryCapacity
      currentSOC == SOCOfAh(s.accumulatedAh, cap)
      voltageBasedSOC == getSOCFromVoltage(batteryVoltage)
      ah == IF s.currentState = FLOAT_CHARGE
            THEN cap * 950000
            ELSE IF voltageBasedSOC > 80000
                 THEN AhOfSOC(Max(currentSOC, voltageBasedSOC), cap)
                 ELSE IF currentSOC > voltageBasedSOC + 20000
                 THEN AhOfSOC(voltageBasedSOC + 10000, cap)
                 ELSE s.accumulatedAh
  IN  saveChargingState(
        [sp EXCEPT !.s.accumulatedAh = constrain(ah, 0, OverchargeLimit(cap))], t)

\* resetChargingCycle() of P2; batteryVoltage is the reading it takes
P2_resetChargingCycle(sp, batteryVoltage, t) ==
  LET s == sp.s
      cap == s.batteryCapacity
      currentSOC == SOCOfAh(s.accumulatedAh, cap)
      voltageBasedSOC == getSOCFromVoltage(batteryVoltage)
      ah == IF s.currentState = FLOAT_CHARGE
            THEN IF currentSOC < voltageBasedSOC - 10000
                 THEN AhOfSOC((currentSOC * 7 + voltageBasedSOC * 3) \div 10, cap)
                 ELSE IF currentSOC < 85000 THEN cap * 850000
                 ELSE s.accumulatedAh
            ELSE IF voltageBasedSOC > 80000
                 THEN AhOfSOC(Max(currentSOC, voltageBasedSOC), cap)
                 ELSE IF currentSOC > voltageBasedSOC + 20000
                 THEN AhOfSOC(voltageBasedSOC + 10000, cap)
                 ELSE s.accumulatedAh
  IN  saveChargingState(
        [sp EXCEPT !.s.accumulatedAh = constrain(ah, 0, OverchargeLimit(cap))], t)

\* ---------------------------------------------------------------- charge state machine
\* calculatedAbsorptionHours (seconds) from the remaining capacity and the net
\* current: remaining * 1.1 / net, limited to maxAbsorptionHours
AbsorptionHours(s) ==
  LET net == s.panelToBatteryCurrent - s.batteryToLoadCurrent
      remaining == s.batteryCapacity * 1000000 - s.accumulatedAh
  IN  IF net <= 0 THEN maxAbsorptionHours \div 2
      ELSE IF remaining > (net * 10000) \div 11 THEN maxAbsorptionHours
      ELSE IF remaining >= 0 THEN Min((remaining * 99) \div (net * 25), maxAbsorptionHours)
      ELSE -((((-remaining) \div 100) * 396) \div net)

\* a faulty case BULK_CHARGE, which works with the bulk voltage of the firmware
\* image (14.40 V) whatever a command has written
CaseBulk_DefaultBulkVoltage(sp, batteryVoltage, chargeCurrent, t) ==
  LET s1 == bulkControl([sp.s EXCEPT !.bulkVoltage = 1440], batteryVoltage, chargeCurrent)
      s2 == [s1 EXCEPT !.bulkVoltage = sp.s.bulkVoltage]
  IN  IF batteryVoltage >= 1440
      THEN [sp EXCEPT !.s = [s2 EXCEPT !.currentState = ABSORPTION_CHARGE,
                                       !.absorptionStartTime = t]]
      ELSE [sp EXCEPT !.s = s2]

\* case BULK_CHARGE (the same in P1 and P2)
\* case BULK_CHARGE leaving bulkStartTime as it is on the way to Absorption
CaseBulk_KeepsBulkStamp(sp, batteryVoltage, chargeCurrent, t) ==
  LET s1 == bulkControl(sp.s, batteryVoltage, chargeCurrent)
      stamped == s1.bulkStartTime = 0
      s2 == IF stamped THEN [s1 EXCEPT !.bulkStartTime = t] ELSE s1
      p2 == IF stamped THEN PutPref(sp.p, "bulkStartTime", t) ELSE sp.p
      toAbsorption == [s |-> [s2 EXCEPT !.currentState = ABSORPTION_CHARGE,
                                        !.absorptionStartTime = t],
                       p |-> p2]
      elapsed == USub(t, s2.bulkStartTime) \div 1000
  IN  IF batteryVoltage >= s2.bulkVoltage THEN toAbsorption
      ELSE IF s2.useFuenteDC /\ s2.fuenteDC_Amps > 0 /\ s2.maxBulkHours > 0
      THEN IF elapsed >= s2.maxBulkHours
           THEN [toAbsorption EXCEPT !.s.currentBulkHours = elapsed]
           ELSE [s |-> [s2 EXCEPT !.currentBulkHours = elapsed], p |-> p2]
      ELSE [s |-> s2, p |-> p2]

CaseBulk(sp, batteryVoltage, chargeCurrent, t) ==
  LET s1 == bulkControl(sp.s, batteryVoltage, chargeCurrent)
      stamped == s1.bulkStartTime = 0
      s2 == IF stamped THEN [s1 EXCEPT !.bulkStartTime = t] ELSE s1
      p2 == IF stamped THEN PutPref(sp.p, "bulkStartTime", t) ELSE sp.p
      toAbsorption == [s |-> [s2 EXCEPT !.currentState = ABSORPTION_CHARGE,
                                        !.absorptionStartTime = t,
                                        !.bulkStartTime = 0],
                       p |-> PutPref(p2, "bulkStartTime", 0)]
      elapsed == USub(t, s2.bulkStartTime) \div 1000
  IN  IF batteryVoltage >= s2.bulkVoltage THEN toAbsorption
      ELSE IF s2.useFuenteDC /\ s2.fuenteDC_Amps > 0 /\ s2.maxBulkHours > 0
      THEN IF elapsed >= s2.maxBulkHours
           THEN [toAbsorption EXCEPT !.s.currentBulkHours = elapsed]
           ELSE [s |-> [s2 EXCEPT !.currentBulkHours = elapsed], p |-> p2]
      ELSE [s |-> s2, p |-> p2]

\* case ABSORPTION_CHARGE of build b, which calls its own resetChargingCycle
CaseAbsorption(b, sp, batteryVoltage, chargeCurrent, t) ==
  LET reset(x) == IF b = P1 THEN P1_resetChargingCycle(x, t)
                  ELSE P2_resetChargingCycle(x, batteryVoltage, t)
      s1 == absorptionControl(sp.s, batteryVoltage, chargeCurrent)
      batteryNetCurrent == s1.panelToBatteryCurrent - s1.batteryToLoadCurrent
      s2 == [s1 EXCEPT !.calculatedAbsorptionHours = AbsorptionHours(s1)]
      toFloat == reset([sp EXCEPT !.s = [s2 EXCEPT !.currentState = FLOAT_CHARGE]])
  IN  IF batteryNetCurrent <= s2.absorptionCurrentThreshold_mA
      THEN IF ~s2.isLithium THEN toFloat
           ELSE [sp EXCEPT !.s = absorptionControlToLitium(s2, chargeCurrent)]
      ELSE IF USub(t, s2.absorptionStartTime) >= s2.calculatedAbsorptionHours * 1000
      THEN IF ~s2.isLithium THEN toFloat ELSE [sp EXCEPT !.s = s2]
      ELSE [sp EXCEPT !.s = s2]

\* case FLOAT_CHARGE; step is the build's over-current reduction
\* case FLOAT_CHARGE without the way out for lithium
CaseFloatWith_KeepsFloat(s, batteryVoltage, chargeCurrent, step) ==
  LET s1 == [s EXCEPT !.calculatedAbsorptionHours = 0]
  IN  IF chargeCurrent <= s1.currentLimitIntoFloatStage + s1.batteryToLoadCurrent
      THEN floatControl(s1, batteryVoltage)
      ELSE adjustPWM(s1, step)

CaseFloatWith(s, batteryVoltage, chargeCurrent, step) ==
  IF ~s.isLithium
  THEN LET s1 == [s EXCEPT !.calculatedAbsorptionHours = 0]
       IN  IF chargeCurrent <= s1.currentLimitIntoFloatStage + s1.batteryToLoadCurrent
           THEN floatControl(s1, batteryVoltage)
           ELSE adjustPWM(s1, step)
  ELSE [s EXCEPT !.currentState = ABSORPTION_CHARGE]

\* case ERROR of P1: load off, setPWM(1), back to ABSORPTION_CHARGE at once
P1_CaseError(s) ==
  [s EXCEPT !.loadPin = LOW, !.ledcDuty = setPWM(1), !.currentState = ABSORPTION_CHARGE]

\* case ERROR of P2: one-time initialisation, then a recheck every
\* ERROR_CHECK_INTERVAL with fresh temperature and voltage readings
P2_CaseError(s, currentVoltage, currentTemp, t) ==
  LET s1 == IF ~s.errorInitialized
            THEN [s EXCEPT !.loadPin = LOW, !.ledcDuty = setPWM(20),
                           !.errorInitialized = TRUE, !.lastErrorCheck = t]
            ELSE s
  IN  IF USub(t, s1.lastErrorCheck) >= ERROR_CHECK_INTERVAL
      THEN IF currentTemp < TEMP_THRESHOLD_SHUTDOWN
              /\ currentVoltage < maxBatteryVoltageAllowed
              /\ currentVoltage >= 1200
           THEN [s1 EXCEPT !.currentState = ABSORPTION_CHARGE,
                           !.errorInitialized = FALSE,
                           !.loadPin = HIGH,
                           !.lastErrorCheck = t]
           ELSE [s1 EXCEPT !.lastErrorCheck = t]
      ELSE s1

\* updateChargeState of P1
P1_updateChargeState(sp, batteryVoltage, chargeCurrent, t) ==
  LET s0 == IF batteryVoltage >= maxBatteryVoltageAllowed
            THEN [sp.s EXCEPT !.currentState = ERROR] ELSE sp.s
      sp0 == [sp EXCEPT !.s = s0]
  IN  CASE s0.currentState = BULK_CHARGE ->
             CaseBulk(sp0, batteryVoltage, chargeCurrent, t)
        [] s0.currentState = ABSORPTION_CHARGE ->
             LET r == CaseAbsorption(P1, sp0, batteryVoltage, chargeCurrent, t)
             IN  [r EXCEPT !.s.currentBulkHours = 0]
        [] s0.currentState = FLOAT_CHARGE ->
             [sp0 EXCEPT !.s = [CaseFloatWith(s0, batteryVoltage, chargeCurrent, -5)
                                  EXCEPT !.currentBulkHours = 0]]
        [] s0.currentState = ERROR ->
             [sp0 EXCEPT !.s = P1_CaseError(s0)]

\* the over-voltage confirmation at the head of P2's updateChargeState
\* a voltage validation that declares the error at the first reading
VoltageConfirmation_FirstReading(s, batteryVoltage, t) ==
  IF USub(t, s.lastVoltageCheck) >= CHECK_INTERVAL
  THEN IF batteryVoltage >= maxBatteryVoltageAllowed
       THEN [s EXCEPT !.currentState = ERROR, !.voltageErrorCount = 0,
                      !.lastVoltageCheck = t]
       ELSE [s EXCEPT !.voltageErrorCount = 0, !.lastVoltageCheck = t]
  ELSE s

VoltageConfirmation(s, batteryVoltage, t) ==
  IF USub(t, s.lastVoltageCheck) >= CHECK_INTERVAL
  THEN IF batteryVoltage >= maxBatteryVoltageAllowed
       THEN IF s.voltageErrorCount + 1 >= MAX_ERROR_COUNT
            THEN [s EXCEPT !.currentState = ERROR, !.voltageErrorCount = 0,
                           !.lastVoltageCheck = t]
            ELSE [s EXCEPT !.voltageErrorCount = @ + 1, !.lastVoltageCheck = t]
       ELSE [s EXCEPT !.voltageErrorCount = 0, !.lastVoltageCheck = t]
  ELSE s

\* updateChargeState of P2; temp is the reading the ERROR case takes
P2_updateChargeState(sp, batteryVoltage, chargeCurrent, t, temp) ==
  LET s0 == VoltageConfirmation(sp.s, batteryVoltage, t)
      sp0 == [sp EXCEPT !.s = s0]
  IN  \* "Si ya estamos en ERROR, no procesar otros estados": return
      IF s0.currentState = ERROR THEN sp0
      ELSE CASE s0.currentState = BULK_CHARGE ->
                  CaseBulk(sp0, batteryVoltage, chargeCurrent, t)
             [] s0.currentState = ABSORPTION_CHARGE ->
                  CaseAbsorption(P2, sp0, batteryVoltage, chargeCurrent, t)
             [] s0.currentState = FLOAT_CHARGE ->
                  [sp0 EXCEPT !.s = CaseFloatWith(s0, batteryVoltage, chargeCurrent, -2)]
             [] s0.currentState = ERROR ->
                  [sp0 EXCEPT !.s = P2_CaseError(s0, batteryVoltage, temp, t)]

\* ---------------------------------------------------------------- safety supervisor
\* P2 loop: grace period of LOW_CURRENT_TIMEOUT before the duty is zeroed
P2_LowCurrentProtection(s, t) ==
  IF s.panelToBatteryCurrent <= 5
  THEN IF ~s.lowCurrentDetected
       THEN [s EXCEPT !.lowCurrentDetected = TRUE, !.lowCurrentStart = t]
       ELSE IF USub(t, s.lowCurrentStart) >= LOW_CURRENT_TIMEOUT /\ s.currentPWM # 0
       THEN [s EXCEPT !.currentPWM = 0, !.lowCurrentDetected = FALSE]
       ELSE s
  ELSE [s EXCEPT !.lowCurrentDetected = FALSE]

\* P1: validateLowCurrentAndControlPWM(currentPanelCurrent)
\* a validation that zeroes the duty at the first low reading
validateLowCurrentAndControlPWM_NoConfirmation(s, currentPanelCurrent, t) ==
  IF currentPanelCurrent > 10 THEN s
  ELSE IF s.currentPWM # 0
  THEN [s EXCEPT !.currentPWM = 0, !.ledcDuty = setPWM(0), !.lastLowCurrentCheck = t]
  ELSE s

validateLowCurrentAndControlPWM(s, currentPanelCurrent, t) ==
  IF currentPanelCurrent > 10
  THEN IF s.validatingLowCurrent \/ s.lowCurrentConfirmations > 0
       THEN [s EXCEPT !.lowCurrentConfirmations = 0, !.validatingLowCurrent = FALSE]
       ELSE s
  ELSE IF s.currentPWM # 0
  THEN IF ~s.validatingLowCurrent
       THEN [s EXCEPT !.validatingLowCurrent = TRUE, !.lowCurrentConfirmations = 0,
                      !.lastLowCurrentCheck = t]
       ELSE IF USub(t, s.lastLowCurrentCheck) >= CONFIRMATION_INTERVAL
       THEN IF s.lowCurrentConfirmations + 1 >= REQUIRED_CONFIRMATIONS
            THEN [s EXCEPT !.currentPWM = 0, !.ledcDuty = setPWM(0),
                           !.validatingLowCurrent = FALSE,
                           !.lowCurrentConfirmations = 0,
                           !.lastLowCurrentCheck = t]
            ELSE [s EXCEPT !.lowCurrentConfirmations = @ + 1,
                           !.lastLowCurrentCheck = t]
       ELSE s
  ELSE s

\* a faulty LVD / LVR rule, which lacks the over-voltage disjunct
LvdLvr_NoOverVoltage(s, v) ==
  IF v < LVD THEN [s EXCEPT !.loadPin = LOW]
  ELSE IF v > LVR /\ v < maxBatteryVoltageAllowed THEN [s EXCEPT !.loadPin = HIGH]
  ELSE s

\* the LVD / LVR rule for the load pin (both builds)
\* an LVD / LVR rule without the upper end of the band: 12.5 V reconnects
LvdLvr_ReconnectsAtLvr(s, v) ==
  IF v < LVD \/ v > maxBatteryVoltageAllowed THEN [s EXCEPT !.loadPin = LOW]
  ELSE IF v >= LVR /\ v < maxBatteryVoltageAllowed THEN [s EXCEPT !.loadPin = HIGH]
  ELSE s

LvdLvr(s, v) ==
  IF v < LVD \/ v > maxBatteryVoltageAllowed THEN [s EXCEPT !.loadPin = LOW]
  ELSE IF v > LVR /\ v < maxBatteryVoltageAllowed THEN [s EXCEPT !.loadPin = HIGH]
  ELSE s

\* P2 loop: LVD / LVR, or the end of a temporary load-off
P2_LoadControl(s, v, t) ==
  IF ~s.temporaryLoadOff THEN LvdLvr(s, v)
  ELSE IF USub(t, s.loadOffStartTime) >= s.loadOffDuration
       THEN [s EXCEPT !.temporaryLoadOff = FALSE, !.loadPin = HIGH]
       ELSE s

\* a faulty load control, which applies LVD / LVR while a load-off is active
P1_LoadControl_IgnoresTimer(s, v, t) == LvdLvr(s, v)

\* P1 executeMainLoopTasks: LVD / LVR, or the end of a temporary load-off
P1_LoadControl(s, v, t) ==
  IF ~s.temporaryLoadOff THEN LvdLvr(s, v)
  ELSE LET currentOffTime == USub(t, s.loadOffStartTime)
       IN  IF currentOffTime >= s.loadOffDuration \/ currentOffTime >= MAX_LOAD_OFF_DURATION
           THEN IF v > LVR /\ v < maxBatteryVoltageAllowed
                THEN [s EXCEPT !.temporaryLoadOff = FALSE, !.loadPin = HIGH]
                ELSE [s EXCEPT !.temporaryLoadOff = FALSE]
           ELSE s

\* checkLoadOffTimer() of the web server file, called by handleWebServer()
checkLoadOffTimer(s, t) ==
  IF s.temporaryLoadOff /\ USub(t, s.loadOffStartTime) >= s.loadOffDuration
  THEN [s EXCEPT !.loadPin = HIGH, !.temporaryLoadOff = FALSE]
  ELSE s

\* RE-ENTRY CHECK (both builds)
\* a re-entry check whose window survives a reading at or above 12.6 V
ReEntryCheck_WindowSurvives(s, v, t) ==
  IF v < reEnterBulkVoltage
  THEN IF ~s.belowThreshold
       THEN [s EXCEPT !.belowThreshold = TRUE, !.lowVoltageStart = t]
       ELSE IF USub(t, s.lowVoltageStart) >= reEnterTime /\ s.currentState # BULK_CHARGE
       THEN [s EXCEPT !.currentState = BULK_CHARGE]
       ELSE s
  ELSE s

ReEntryCheck(s, v, t) ==
  IF v < reEnterBulkVoltage
  THEN IF ~s.belowThreshold
       THEN [s EXCEPT !.belowThreshold = TRUE, !.lowVoltageStart = t]
       ELSE IF USub(t, s.lowVoltageStart) >= reEnterTime /\ s.currentState # BULK_CHARGE
       THEN [s EXCEPT !.currentState = BULK_CHARGE]
       ELSE s
  ELSE [s EXCEPT !.belowThreshold = FALSE, !.lowVoltageStart = 0]

\* maxBulkHours (seconds) = batteryCapacity / fuenteDC_Amps
MaxBulkHours(s) ==
  IF s.useFuenteDC /\ s.fuenteDC_Amps > 0
  THEN (s.batteryCapacity * 3600) \div s.fuenteDC_Amps ELSE 0

RecomputeMaxBulkHours(s) == [s EXCEPT !.maxBulkHours = MaxBulkHours(s)]

\* P1 executeMainLoopTasks: immediate over-temperature shutdown
P1_TemperatureCheck(s, temp) ==
  IF temp >= TEMP_THRESHOLD_SHUTDOWN
  THEN [s EXCEPT !.temperature = temp, !.currentState = ERROR]
  ELSE [s EXCEPT !.temperature = temp]

\* P2 loop: over-temperature confirmation every TEMP_CHECK_INTERVAL
P2_TemperatureCheck(s, temp, t) ==
  LET s1 == [s EXCEPT !.temperature = temp]
  IN  IF USub(t, s1.lastTempCheck) >= TEMP_CHECK_INTERVAL
      THEN IF temp >= TEMP_THRESHOLD_SHUTDOWN
           THEN IF s1.tempErrorCount + 1 >= MAX_TEMP_ERROR_COUNT
                THEN [s1 EXCEPT !.currentState = ERROR, !.tempErrorCount = 0,
                                !.lastTempCheck = t]
                ELSE [s1 EXCEPT !.tempErrorCount = @ + 1, !.lastTempCheck = t]
           ELSE [s1 EXCEPT !.tempErrorCount = 0, !.lastTempCheck = t]
      ELSE s1

\* the sampled signals of one tick
ReadSensors(s, v, ip, il) ==
  [s EXCEPT !.panelToBatteryCurrent = ip, !.batteryToLoadCurrent = il,
            !.voltageBatterySensor2 = v, !.adjustCalls = 0]

\* ---------------------------------------------------------------- main scheduler
\* executeMainLoopTasks() of P1 at time t with readings v, temp, ip, il
executeMainLoopTasks(sp, t, v, temp, ip, il) ==
  LET s1 == ReadSensors(sp.s, v, ip, il)
      s2 == validateLowCurrentAndControlPWM(s1, ip, t)
      s3 == P1_LoadControl(s2, v, t)
      s4 == ReEntryCheck(s3, v, t)
      sp5 == P1_updateChargeState([sp EXCEPT !.s = s4], v, ip, t)
      s6 == RecomputeMaxBulkHours(sp5.s)
      s7 == P1_TemperatureCheck(s6, temp)
  IN  [sp5 EXCEPT !.s = s7]

\* loop() of P1 at time t; webSaw: whether handleWebServer() ran after the
\* load-off time was over (it runs before the samples of the tick are taken)
P1_loop(sp, t, v, temp, ip, il, webSaw) ==
  LET s1 == IF webSaw THEN checkLoadOffTimer(sp.s, t) ELSE sp.s
      s2 == P1_updateAhTracking(s1, t)
      sp3 == saveChargingState([sp EXCEPT !.s = s2], t)
  IN  IF USub(t, sp3.s.previousMainLoopTime) >= MAIN_LOOP_INTERVAL
      THEN executeMainLoopTasks([sp3 EXCEPT !.s.previousMainLoopTime = t],
                                t, v, temp, ip, il)
      ELSE sp3

\* loop() of P2 at time t with readings v, temp, ip, il
P2_loop(sp, t, v, temp, ip, il) ==
  LET s1 == P2_updateAhTracking(sp.s, t)
      sp2 == saveChargingState([sp EXCEPT !.s = s1], t)
      s3 == ReadSensors(sp2.s, v, ip, il)
      s4 == P2_LowCurrentProtection(s3, t)
      s5 == P2_LoadControl(s4, v, t)
      s6 == ReEntryCheck(s5, v, t)
      sp7 == P2_updateChargeState([sp2 EXCEPT !.s = s6], v, ip, t, temp)
      s8 == RecomputeMaxBulkHours(sp7.s)
      s9 == P2_TemperatureCheck(s8, temp, t)
      s10 == checkLoadOffTimer(s9, t)
  IN  [sp7 EXCEPT !.s = s10]

\* ---------------------------------------------------------------- boot
\* the globals as their initialisers leave them, before setup() runs;
\* response is the kind of the last line the controller wrote on the
\* supervisor link ("" before the first one; "DATA" for DATA:{...}, "JSON" for
\* a bare {...}), uartRx the bytes received and
\* not yet read, lineBytes the number of bytes read of the line in progress
GlobalInitialisers ==
  [currentState |-> BULK_CHARGE, loadPin |-> LOW, currentPWM |-> 0, ledcDuty |-> 0,
   adjustCalls |-> 0, response |-> "",
   serialBuffer |-> <<>>, uartRx |-> <<>>, lineBytes |-> 0,
   temporaryLoadOff |-> FALSE, loadOffStartTime |-> 0, loadOffDuration |-> 0,
   voltageErrorCount |-> 0, lastVoltageCheck |-> 0,
   tempErrorCount |-> 0, lastTempCheck |-> 0,
   belowThreshold |-> FALSE, lowVoltageStart |-> 0,
   errorInitialized |-> FALSE, lastErrorCheck |-> 0,
   lowCurrentDetected |-> FALSE, lowCurrentStart |-> 0,
   validatingLowCurrent |-> FALSE, lowCurrentConfirmations |-> 0,
   lastLowCurrentCheck |-> 0,
   previousMainLoopTime |-> 0,
   panelToBatteryCurrent |-> 0, batteryToLoadCurrent |-> 0,
   voltageBatterySensor2 |-> 0, temperature |-> 0, errorWait |-> FALSE,
   batteryCapacity |-> 50, thresholdPercentage |-> 10, maxAllowedCurrent |-> 6000,
   bulkVoltage |-> 1440, absorptionVoltage |-> 1440, floatVoltage |-> 1360,
   isLithium |-> FALSE, useFuenteDC |-> FALSE, fuenteDC_Amps |-> 0,
   factorDivider |-> 0,
   absorptionCurrentThreshold_mA |-> 350, currentLimitIntoFloatStage |-> 100,
   maxBulkHours |-> 0, currentBulkHours |-> 0,
   accumulatedAh |-> 0, lastUpdateTime |-> 0, lastSaveTime |-> 0,
   calculatedAbsorptionHours |-> 0, absorptionStartTime |-> 0, bulkStartTime |-> 0]

\* a faulty setup(), which starts by the voltage alone without the safety check
InitialState_NoGate(b, s, initialBatteryVoltage, initialTemperature) ==
  [s EXCEPT !.currentState =
              IF initialBatteryVoltage >= chargedBatteryRestVoltage
              THEN IF ~s.isLithium THEN FLOAT_CHARGE ELSE ABSORPTION_CHARGE
              ELSE BULK_CHARGE,
            !.loadPin = (initialBatteryVoltage >= 1200)]

\* setup(): the initial state and load pin, chosen before the preferences are read
InitialState(b, s, initialBatteryVoltage, initialTemperature) ==
  LET byVoltage ==
        IF initialBatteryVoltage >= chargedBatteryRestVoltage
        THEN IF ~s.isLithium THEN FLOAT_CHARGE ELSE ABSORPTION_CHARGE
        ELSE BULK_CHARGE
      safeToStart == initialTemperature < TEMP_THRESHOLD_SHUTDOWN
                     /\ initialBatteryVoltage < maxBatteryVoltageAllowed
  IN  IF b = P2 /\ ~safeToStart
      THEN [s EXCEPT !.currentState = ERROR, !.loadPin = LOW]
      ELSE [s EXCEPT !.currentState = byVoltage,
                     !.loadPin = (initialBatteryVoltage >= 1200)]

\* setup(): the tunables and the cycle state read from the preferences
LoadPreferences(b, s, p, initialBatteryVoltage) ==
  LET cap == GetPref(p, "batteryCap", 50)
      thr == GetPref(p, "thresholdPerc", 10)
      ah == IF b = P1 THEN GetPref(p, "accumulatedAh", 0)
            ELSE IF "accumulatedAh" \in DOMAIN p /\ p.accumulatedAh >= 0
                    /\ p.accumulatedAh <= OverchargeLimit(cap)
                 THEN p.accumulatedAh
                 ELSE AhOfSOC(getSOCFromVoltage(initialBatteryVoltage), cap)
      s1 == [s EXCEPT !.batteryCapacity = cap,
                      !.thresholdPercentage = thr,
                      !.maxAllowedCurrent = GetPref(p, "maxCurrent", 6000),
                      !.accumulatedAh = ah,
                      !.bulkVoltage = GetPref(p, "bulkV", 1440),
                      !.absorptionVoltage = GetPref(p, "absV", 1440),
                      !.floatVoltage = GetPref(p, "floatV", 1360),
                      !.isLithium = GetPref(p, "isLithium", FALSE),
                      !.useFuenteDC = GetPref(p, "useFuenteDC", FALSE),
                      !.fuenteDC_Amps = GetPref(p, "fuenteDC_Amps", 0),
                      !.bulkStartTime = GetPref(p, "bulkStartTime", 0),
                      !.absorptionCurrentThreshold_mA = cap * thr,
                      !.factorDivider = 5,
                      !.currentLimitIntoFloatStage = (cap * thr) \div 5]
  IN  RecomputeMaxBulkHours(s1)

\* setup() of build b with the preferences p and the readings taken at boot
Setup(b, p, initialBatteryVoltage, initialTemperature) ==
  LET s0 == [GlobalInitialisers EXCEPT
               !.ledcDuty = IF b = P1 THEN setPWM(0) ELSE setPWM(10)]
      s1 == InitialState(b, s0, initialBatteryVoltage, initialTemperature)
  IN  LoadPreferences(b, s1, p, initialBatteryVoltage)

\* what the preferences may hold at power-up
StoredPrefs == {FreshPrefs, PutPref(FreshPrefs, "isLithium", TRUE)}

Init ==
  /\ build \in Builds
  /\ now = BootTime
  /\ prefs \in StoredPrefs
  /\ \E v \in Volts, temp \in Temps : g = Setup(build, prefs, v, temp)

\* ---------------------------------------------------------------- command protocol
\* arguments of CMD:TOGGLE_LOAD:<seconds> (toInt() of the text)
ToggleArgs == {-5, 0, 43200, 50000}
\* the seconds field of POST /toggle-load
WebToggleArgs == {2, 301}
\* values of CMD:SET_currentPWM and CMD:SET_pwmPercentage
PwmArgs == {255, 256}
PercentArgs == {100, 101}

\* validateLoadOffDuration(requestedSeconds) of P1, on an unsigned long
validateLoadOffDuration(requestedSeconds) ==
  IF UGreater(requestedSeconds, MAX_LOAD_OFF_SECONDS) THEN MAX_LOAD_OFF_SECONDS
  ELSE IF ULess(requestedSeconds, 1) THEN 1
  ELSE UValue(requestedSeconds)

\* handleToggleLoad of P1; x is toInt() of the argument
P1_handleToggleLoad(s, x, t) ==
  LET validatedSeconds == validateLoadOffDuration(ToUnsignedLong(x))
  IN  IF validatedSeconds >= 1 /\ validatedSeconds <= MAX_LOAD_OFF_SECONDS
      THEN [s EXCEPT !.loadPin = LOW,
                     !.temporaryLoadOff = TRUE,
                     !.loadOffStartTime = t,
                     !.loadOffDuration = validatedSeconds * 1000,
                     !.response = "OK"]
      ELSE [s EXCEPT !.response = "ERROR"]

\* handleToggleLoad of P2 and of the .ino; seconds is toInt() of the argument
P2_handleToggleLoad(s, seconds, t) ==
  IF seconds >= 1 /\ seconds <= P2_MAX_TOGGLE_SECONDS
  THEN IF s.loadPin = HIGH
       THEN [s EXCEPT !.loadPin = LOW,
                      !.temporaryLoadOff = TRUE,
                      !.loadOffStartTime = t,
                      !.loadOffDuration = seconds * 1000,
                      !.response = "OK"]
       ELSE [s EXCEPT !.response = "OK"]
  ELSE [s EXCEPT !.response = "ERROR"]

\* POST /toggle-load of the web server file
WebToggleLoad(s, seconds, t) ==
  IF seconds > 0 /\ seconds <= WEB_MAX_TOGGLE_SECONDS
  THEN IF s.loadPin = HIGH
       THEN [s EXCEPT !.loadPin = LOW,
                      !.temporaryLoadOff = TRUE,
                      !.loadOffStartTime = t,
                      !.loadOffDuration = seconds * 1000]
       ELSE [s EXCEPT !.temporaryLoadOff = FALSE]
  ELSE s

\* CMD:CANCEL_TEMP_OFF
CancelTempOff(s) ==
  IF s.temporaryLoadOff
  THEN [s EXCEPT !.temporaryLoadOff = FALSE, !.loadPin = HIGH, !.response = "OK"]
  ELSE [s EXCEPT !.response = "OK"]

\* handleSetCommand of P1, parameter currentPWM
SetCurrentPWM(s, value) ==
  IF value >= 0 /\ value <= 255
  THEN [s EXCEPT !.currentPWM = value, !.ledcDuty = setPWM(value),
                 !.response = "OK"]
  ELSE [s EXCEPT !.response = "ERROR"]

\* handleSetCommand of P1, parameter pwmPercentage
SetPwmPercentage(s, value) ==
  IF value >= 0 /\ value <= 100
  THEN LET pwmValue == (value * 255) \div 100
       IN  [s EXCEPT !.currentPWM = pwmValue, !.ledcDuty = setPWM(pwmValue),
                     !.response = "OK"]
  ELSE [s EXCEPT !.response = "ERROR"]

\* the parameters of CMD:SET_<parameter>:<value> and the values tried for each
\* (centivolts, tenths of a percent, mA, Ah, A; valueStr == "true" for the flags)
SetParameters ==
  {"batteryCapacity", "thresholdPercentage", "maxAllowedCurrent", "bulkVoltage",
   "absorptionVoltage", "floatVoltage", "isLithium", "useFuenteDC",
   "fuenteDC_Amps", "LVD", "LVR", "factorDivider", "chargeMode"}

SetArgs(parameter) ==
  CASE parameter = "batteryCapacity" -> {0, 10, 1001}
    [] parameter = "thresholdPercentage" -> {0, 25, 51}
    [] parameter = "maxAllowedCurrent" -> {999, 8000, 15001}
    [] parameter = "bulkVoltage" -> {1199, 1400, 1501}
    [] parameter = "absorptionVoltage" -> {1199, 1440, 1501}
    [] parameter = "floatVoltage" -> {1199, 1500, 1501}
    [] parameter = "isLithium" -> {TRUE}
    [] parameter = "useFuenteDC" -> BOOLEAN
    [] parameter = "fuenteDC_Amps" -> {-1, 5, 51}
    [] parameter = "LVD" -> {999, 1100}
    [] parameter = "LVR" -> {1300, 1401}
    [] parameter = "factorDivider" -> {0, 2, 11}
    [] OTHER -> {0}

\* a faulty recalculation, which keeps the stored energy whatever the capacity
RecalculatedAh_NoLimit(accumulatedAh, value) == accumulatedAh

\* handleSetCommand: the new energy when the capacity becomes value (part_002)
RecalculatedAh(accumulatedAh, value) ==
  IF accumulatedAh > OverchargeLimit(value) THEN OverchargeLimit(value)
  ELSE IF accumulatedAh < 0 THEN 0
  ELSE accumulatedAh

\* handleSetCommand of build b: the branch of the parameter, which yields the
\* globals and whether the value was taken
SetParameter(b, s, parameter, value) ==
  LET no == [s |-> s, success |-> FALSE]
      yes(s1) == [s |-> s1, success |-> TRUE]
  IN  CASE parameter = "batteryCapacity" ->
             IF value > 0 /\ value <= 1000
             THEN LET s1 == [s EXCEPT
                               !.batteryCapacity = value,
                               !.accumulatedAh =
                                  IF b = P2 THEN RecalculatedAh(@, value) ELSE @,
                               !.absorptionCurrentThreshold_mA =
                                  value * s.thresholdPercentage,
                               !.currentLimitIntoFloatStage =
                                  (value * s.thresholdPercentage) \div s.factorDivider]
                  IN  yes(IF b = P2 /\ s.useFuenteDC /\ s.fuenteDC_Amps > 0
                          THEN RecomputeMaxBulkHours(s1) ELSE s1)
             ELSE no
        [] parameter = "thresholdPercentage" ->
             IF value >= 1 /\ value <= 50
             THEN yes([s EXCEPT
                         !.thresholdPercentage = value,
                         !.absorptionCurrentThreshold_mA = s.batteryCapacity * value,
                         !.currentLimitIntoFloatStage =
                            (s.batteryCapacity * value) \div s.factorDivider])
             ELSE no
        [] parameter = "maxAllowedCurrent" ->
             IF value >= 1000 /\ value <= 15000
             THEN yes([s EXCEPT !.maxAllowedCurrent = value]) ELSE no
        [] parameter = "bulkVoltage" ->
             IF value >= 1200 /\ value <= 1500
             THEN yes([s EXCEPT !.bulkVoltage = value]) ELSE no
        [] parameter = "absorptionVoltage" ->
             IF value >= 1200 /\ value <= 1500
             THEN yes([s EXCEPT !.absorptionVoltage = value]) ELSE no
        [] parameter = "floatVoltage" ->
             IF value >= 1200 /\ value <= 1500
             THEN yes([s EXCEPT !.floatVoltage = value]) ELSE no
        [] parameter = "isLithium" -> yes([s EXCEPT !.isLithium = value])
        [] parameter = "useFuenteDC" -> yes([s EXCEPT !.useFuenteDC = value])
        [] parameter = "fuenteDC_Amps" ->
             IF value >= 0 /\ value <= 50
             THEN yes(RecomputeMaxBulkHours([s EXCEPT !.fuenteDC_Amps = value]))
             ELSE no
        [] parameter = "currentPWM" /\ b = P1 ->
             [s |-> SetCurrentPWM(s, value), success |-> value >= 0 /\ value <= 255]
        [] parameter = "pwmPercentage" /\ b = P1 ->
             [s |-> SetPwmPercentage(s, value), success |-> value >= 0 /\ value <= 100]
        [] parameter = "LVD" ->
             IF value >= 1000 /\ value <= 1300 THEN yes(s) ELSE no
        [] parameter = "LVR" ->
             IF value >= 1100 /\ value <= 1400 THEN yes(s) ELSE no
        [] parameter = "factorDivider" ->
             IF value >= 1 /\ value <= 10
             THEN yes([s EXCEPT
                         !.factorDivider = value,
                         !.currentLimitIntoFloatStage =
                            s.absorptionCurrentThreshold_mA \div value])
             ELSE no
        [] OTHER -> no

\* handleSetCommand: the keys written to the preferences after a success
SavePreference(b, s, p, parameter) ==
  CASE parameter = "batteryCapacity" ->
         IF b = P2
         THEN PutPref(PutPref(p, "batteryCap", s.batteryCapacity),
                      "accumulatedAh", s.accumulatedAh)
         ELSE PutPref(p, "batteryCap", s.batteryCapacity)
    [] parameter = "thresholdPercentage" -> PutPref(p, "thresholdPerc", s.thresholdPercentage)
    [] parameter = "maxAllowedCurrent" -> PutPref(p, "maxCurrent", s.maxAllowedCurrent)
    [] parameter = "bulkVoltage" -> PutPref(p, "bulkV", s.bulkVoltage)
    [] parameter = "absorptionVoltage" -> PutPref(p, "absV", s.absorptionVoltage)
    [] parameter = "floatVoltage" -> PutPref(p, "floatV", s.floatVoltage)
    [] parameter = "isLithium" -> PutPref(p, "isLithium", s.isLithium)
    [] parameter = "useFuenteDC" -> PutPref(p, "useFuenteDC", s.useFuenteDC)
    [] parameter = "fuenteDC_Amps" -> PutPref(p, "fuenteDC_Amps", s.fuenteDC_Amps)
    [] OTHER -> p

\* a faulty handler, which writes the preference key of a rejected value too
handleSetCommand_AlwaysSaves(b, sp, parameter, value) ==
  LET r == SetParameter(b, sp.s, parameter, value)
  IN  [s |-> [r.s EXCEPT !.response = IF r.success THEN "OK" ELSE "ERROR"],
       p |-> SavePreference(b, r.s, sp.p, parameter)]

\* handleSetCommand of build b for CMD:SET_<parameter>:<value>
handleSetCommand(b, sp, parameter, value) ==
  LET r == SetParameter(b, sp.s, parameter, value)
  IN  IF r.success
      THEN [s |-> [r.s EXCEPT !.response = "OK"],
            p |-> SavePreference(b, r.s, sp.p, parameter)]
      ELSE [sp EXCEPT !.s.response = "ERROR"]

\* the forms POST /update receives: capacity, threshold, current limit, the
\* three stage voltages, chemistry, power source and its current
UpdateForms ==
  {[batteryCapacity |-> 50, thresholdPercentage |-> 10, maxAllowedCurrent |-> 6000,
    bulkVoltage |-> 1440, absorptionVoltage |-> 1440, floatVoltage |-> 1360,
    isLithium |-> FALSE, useFuenteDC |-> TRUE, fuenteDC_Amps |-> 5],
   [batteryCapacity |-> 7, thresholdPercentage |-> 10, maxAllowedCurrent |-> 6000,
    bulkVoltage |-> 1380, absorptionVoltage |-> 1440, floatVoltage |-> 1360,
    isLithium |-> FALSE, useFuenteDC |-> FALSE, fuenteDC_Amps |-> 0]}

\* POST /update of the web server file with the form f
WebUpdate(sp, f) ==
  LET s1 == [sp.s EXCEPT
               !.batteryCapacity = f.batteryCapacity,
               !.thresholdPercentage = f.thresholdPercentage,
               !.maxAllowedCurrent = f.maxAllowedCurrent,
               !.bulkVoltage = f.bulkVoltage,
               !.absorptionVoltage = f.absorptionVoltage,
               !.floatVoltage = f.floatVoltage,
               !.isLithium = f.isLithium,
               !.useFuenteDC = f.useFuenteDC,
               !.fuenteDC_Amps = f.fuenteDC_Amps,
               !.absorptionCurrentThreshold_mA =
                  f.batteryCapacity * f.thresholdPercentage,
               !.currentLimitIntoFloatStage =
                  (f.batteryCapacity * f.thresholdPercentage) \div sp.s.factorDivider]
      p1 == PutPref(sp.p, "batteryCap", f.batteryCapacity)
      p2 == PutPref(p1, "thresholdPerc", f.thresholdPercentage)
      p3 == PutPref(p2, "maxCurrent", f.maxAllowedCurrent)
      p4 == PutPref(p3, "bulkV", f.bulkVoltage)
      p5 == PutPref(p4, "absV", f.absorptionVoltage)
      p6 == PutPref(p5, "floatV", f.floatVoltage)
      p7 == PutPref(p6, "isLithium", f.isLithium)
      p8 == PutPref(p7, "useFuenteDC", f.useFuenteDC)
  IN  [s |-> s1, p |-> PutPref(p8, "fuenteDC_Amps", f.fuenteDC_Amps)]

\* ---------------------------------------------------------------- supervisor link
\* Text on the link is a sequence of bytes, each a one-character string.
\* MaxLineLength is the guard of handleSerialCommands.
MaxLineLength == 200

CMD_ == <<"C", "M", "D", ":">>
GET_DATA == <<"G", "E", "T", "_", "D", "A", "T", "A">>
SET_ == <<"S", "E", "T", "_">>
TOGGLE_LOAD_ == <<"T", "O", "G", "G", "L", "E", "_", "L", "O", "A", "D", ":">>
CANCEL_TEMP_OFF == <<"C", "A", "N", "C", "E", "L", "_", "T", "E", "M", "P", "_", "O", "F", "F">>
TRUE_ == <<"t", "r", "u", "e">>

\* String::startsWith, String::indexOf (0 when absent), String::trim
startsWith(text, prefix) ==
  Len(text) >= Len(prefix) /\ SubSeq(text, 1, Len(prefix)) = prefix

indexOf(text, c) ==
  IF \E i \in 1..Len(text) : text[i] = c
  THEN CHOOSE i \in 1..Len(text) : text[i] = c /\ \A j \in 1..(i - 1) : text[j] # c
  ELSE 0

isSpace(c) == c \in {" ", "\r", "\n", "\t"}

trim(text) ==
  IF \A i \in 1..Len(text) : isSpace(text[i]) THEN <<>>
  ELSE LET first == CHOOSE i \in 1..Len(text) :
                      ~isSpace(text[i]) /\ \A j \in 1..(i - 1) : isSpace(text[j])
           last == CHOOSE i \in 1..Len(text) :
                     ~isSpace(text[i]) /\ \A j \in (i + 1)..Len(text) : isSpace(text[j])
       IN  SubSeq(text, first, last)

Digits == <<"0", "1", "2", "3", "4", "5", "6", "7", "8", "9">>
isDigit(c) == \E d \in 1..10 : Digits[d] = c
digitValue(c) == (CHOOSE d \in 1..10 : Digits[d] = c) - 1

\* the number made of the leading digits of text, continuing from acc
RECURSIVE leadingNumber(_, _)
leadingNumber(text, acc) ==
  IF text = <<>> \/ ~isDigit(Head(text)) THEN acc
  ELSE leadingNumber(Tail(text), acc * 10 + digitValue(Head(text)))

\* String::toInt: optional sign and leading digits, 0 when there are none
toInt(text) ==
  IF text # <<>> /\ Head(text) = "-" THEN -leadingNumber(Tail(text), 0)
  ELSE leadingNumber(text, 0)

\* the parameter named by the text between "SET_" and the colon
parameterNamed(parameter) ==
  CASE
       parameter = <<"b", "a", "t", "t", "e", "r", "y", "C", "a", "p", "a", "c", "i", "t", "y">> -> "batteryCapacity"
    [] parameter = <<"t", "h", "r", "e", "s", "h", "o", "l", "d", "P", "e", "r", "c", "e", "n", "t", "a", "g", "e">> -> "thresholdPercentage"
    [] parameter = <<"m", "a", "x", "A", "l", "l", "o", "w", "e", "d", "C", "u", "r", "r", "e", "n", "t">> -> "maxAllowedCurrent"
    [] parameter = <<"b", "u", "l", "k", "V", "o", "l", "t", "a", "g", "e">> -> "bulkVoltage"
    [] parameter = <<"a", "b", "s", "o", "r", "p", "t", "i", "o", "n", "V", "o", "l", "t", "a", "g", "e">> -> "absorptionVoltage"
    [] parameter = <<"f", "l", "o", "a", "t", "V", "o", "l", "t", "a", "g", "e">> -> "floatVoltage"
    [] parameter = <<"i", "s", "L", "i", "t", "h", "i", "u", "m">> -> "isLithium"
    [] parameter = <<"u", "s", "e", "F", "u", "e", "n", "t", "e", "D", "C">> -> "useFuenteDC"
    [] parameter = <<"f", "u", "e", "n", "t", "e", "D", "C", "_", "A", "m", "p", "s">> -> "fuenteDC_Amps"
    [] parameter = <<"L", "V", "D">> -> "LVD"
    [] parameter = <<"L", "V", "R">> -> "LVR"
    [] parameter = <<"f", "a", "c", "t", "o", "r", "D", "i", "v", "i", "d", "e", "r">> -> "factorDivider"
    [] parameter = <<"c", "u", "r", "r", "e", "n", "t", "P", "W", "M">> -> "currentPWM"
    [] parameter = <<"p", "w", "m", "P", "e", "r", "c", "e", "n", "t", "a", "g", "e">> -> "pwmPercentage"
    [] OTHER -> "unknown"

\* String::toFloat of valueStr in the unit the model keeps the parameter in
\* (centivolts, tenths of a percent); the flags compare valueStr with "true", "1"
valueOf(parameter, valueStr) ==
  CASE parameter \in {"isLithium", "useFuenteDC"} ->
         valueStr = TRUE_ \/ valueStr = <<"1">>
    [] parameter \in {"bulkVoltage", "absorptionVoltage", "floatVoltage",
                      "LVD", "LVR"} -> toInt(valueStr) * 100
    [] parameter = "thresholdPercentage" -> toInt(valueStr) * 10
    [] OTHER -> toInt(valueStr)

\* processSerialCommand of build b at time t
processSerialCommand(b, sp, command, t) ==
  LET text == trim(command)
      cmd == SubSeq(text, Len(CMD_) + 1, Len(text))
      colonIndex == indexOf(cmd, ":")
      valueStr == SubSeq(cmd, colonIndex + 1, Len(cmd))
  IN  IF ~startsWith(text, CMD_) THEN sp
      ELSE IF cmd = GET_DATA
      THEN [sp EXCEPT !.s.response = IF b = P1 THEN "DATA" ELSE "JSON"]
      ELSE IF startsWith(cmd, SET_)
      THEN IF colonIndex = 0 THEN [sp EXCEPT !.s.response = "ERROR"]
           ELSE LET parameter == parameterNamed(SubSeq(cmd, 5, colonIndex - 1))
                IN  handleSetCommand(b, sp, parameter, valueOf(parameter, valueStr))
      ELSE IF startsWith(cmd, TOGGLE_LOAD_)
      THEN [sp EXCEPT !.s = IF b = P1 THEN P1_handleToggleLoad(@, toInt(valueStr), t)
                            ELSE P2_handleToggleLoad(@, toInt(valueStr), t)]
      ELSE IF cmd = CANCEL_TEMP_OFF THEN [sp EXCEPT !.s = CancelTempOff(@)]
      ELSE [sp EXCEPT !.s.response = "ERROR"]

\* handleSerialCommands: the while loop, which reads the bytes available up to
\* a newline (commandReady) or until the buffer exceeds MaxLineLength and is
\* cleared; n counts the bytes read of the line in progress
readAvailable(serialBuffer, uartRx, n) ==
  LET newline == indexOf(uartRx, "\n")
      before == IF newline = 0 THEN Len(uartRx) ELSE newline - 1
      room == MaxLineLength - Len(serialBuffer)
  IN  IF before > room
      THEN [serialBuffer |-> <<>>,
            uartRx |-> SubSeq(uartRx, room + 2, Len(uartRx)),
            n |-> n + room + 1, commandReady |-> FALSE]
      ELSE IF newline > 0
      THEN [serialBuffer |-> serialBuffer \o SubSeq(uartRx, 1, newline - 1),
            uartRx |-> SubSeq(uartRx, newline + 1, Len(uartRx)),
            n |-> 0, commandReady |-> TRUE]
      ELSE [serialBuffer |-> serialBuffer \o uartRx, uartRx |-> <<>>,
            n |-> n + Len(uartRx), commandReady |-> FALSE]

\* handleSerialCommands of build b at time t
handleSerialCommands(b, sp, t) ==
  LET r == readAvailable(sp.s.serialBuffer, sp.s.uartRx, sp.s.lineBytes)
      sp1 == [sp EXCEPT !.s.uartRx = r.uartRx, !.s.lineBytes = r.n]
  IN  IF r.commandReady
      THEN [processSerialCommand(b, sp1, r.serialBuffer, t)
              EXCEPT !.s.serialBuffer = <<>>]
      ELSE [sp1 EXCEPT !.s.serialBuffer = r.serialBuffer]

\* ---------------------------------------------------------------- actions
\* one iteration of loop() that runs the 1 s block, d ms after the previous one,
\* with the readings the sensors return drawn from the given sets
TickWith(Ds, Vs, Ts, Ips, Ils, horizon) ==
  \E d \in Ds, v \in Vs, temp \in Ts, ip \in Ips, il \in Ils, webSaw \in BOOLEAN :
    /\ now + d <= horizon
    /\ now' = now + d
    /\ LET sp == [s |-> g, p |-> prefs]
           r == IF build = P1 THEN P1_loop(sp, now', v, temp, ip, il, webSaw)
                ELSE P2_loop(sp, now', v, temp, ip, il)
       IN  g' = r.s /\ prefs' = r.p
    /\ UNCHANGED build

Tick == TickWith(LoopDurations, Volts, Temps, PanelCurrents, LoadCurrents, MaxNow)

\* CMD:TOGGLE_LOAD:<x> with the argument x
SerialToggleLoadArg(x) ==
  /\ g' = IF build = P1 THEN P1_handleToggleLoad(g, x, now)
          ELSE P2_handleToggleLoad(g, x, now)
  /\ UNCHANGED <<build, now, prefs>>

\* CMD:TOGGLE_LOAD:<x> on the supervisor link
SerialToggleLoad == \E x \in ToggleArgs : SerialToggleLoadArg(x)

\* CMD:CANCEL_TEMP_OFF on the supervisor link
SerialCancelTempOff ==
  /\ g' = CancelTempOff(g)
  /\ UNCHANGED <<build, now, prefs>>

\* POST /toggle-load
HttpToggleLoad ==
  \E x \in WebToggleArgs :
    /\ g' = WebToggleLoad(g, x, now)
    /\ UNCHANGED <<build, now, prefs>>

\* CMD:SET_currentPWM:<x> (P1 only; P2 answers "Unknown parameter")
SerialSetCurrentPWM ==
  \E x \in PwmArgs :
    /\ g' = IF build = P1 THEN SetCurrentPWM(g, x)
            ELSE [g EXCEPT !.response = "ERROR"]
    /\ UNCHANGED <<build, now, prefs>>

\* CMD:SET_pwmPercentage:<x> (P1 only; P2 answers "Unknown parameter")
SerialSetPwmPercentage ==
  \E x \in PercentArgs :
    /\ g' = IF build = P1 THEN SetPwmPercentage(g, x)
            ELSE [g EXCEPT !.response = "ERROR"]
    /\ UNCHANGED <<build, now, prefs>>

Next ==
  \/ Tick
  \/ SerialToggleLoad
  \/ SerialCancelTempOff
  \/ HttpToggleLoad
  \/ SerialSetCurrentPWM
  \/ SerialSetPwmPercentage

Spec == Init /\ [][Next]_vars

\* ---------------------------------------------------------------- long runs
\* The charger left alone (no command, no panel current, 25 Celsius) for
\* MaxNowHealthy ms with a battery voltage that stays within [12.0 V, 15.0 V).
MaxNowHealthy == 33000
HealthyVolts == {1230, 1380}
HealthyTick ==
  TickWith({MAIN_LOOP_INTERVAL}, HealthyVolts, {25}, {0}, {0}, MaxNowHealthy)
NextHealthy == HealthyTick
SpecHealthy == Init /\ [][NextHealthy]_vars

\* The charger left alone for MaxNowSurge ms with a battery voltage that is
\* normal or at the over-voltage threshold.
MaxNowSurge == 9000
SurgeVolts == {1380, 1500}
SurgeTick ==
  TickWith({MAIN_LOOP_INTERVAL}, SurgeVolts, {25}, {0}, {0}, MaxNowSurge)
NextSurge == SurgeTick
SpecSurge == Init /\ [][NextSurge]_vars

\* The load switch exercised for MaxNowLoad ms: every voltage band of the
\* LVD / LVR rule, both temperatures, and the load-off commands of both
\* interfaces between the ticks; no panel current.
MaxNowLoad == 6000
LoadVolts == {1150, 1380, 1510}
LoadTick ==
  TickWith({MAIN_LOOP_INTERVAL}, LoadVolts, Temps, {0}, {0}, MaxNowLoad)
NextLoad ==
  \/ LoadTick
  \/ SerialToggleLoad
  \/ SerialCancelTempOff
  \/ HttpToggleLoad
SpecLoad == Init /\ [][NextLoad]_vars

\* The tunables changed over both interfaces: every CMD:SET_ parameter with
\* values inside and outside its range, POST /update, and the ticks up to
\* MaxNowConfig ms with a charging current of 3.6 A at 13.80 V, after a first
\* boot (empty preferences) at 13.80 V and 25 Celsius.
MaxNowConfig == 2000
InitConfig ==
  /\ build \in Builds
  /\ now = BootTime
  /\ prefs = FreshPrefs
  /\ g = Setup(build, prefs, 1380, 25)
ConfigTick ==
  TickWith({MAIN_LOOP_INTERVAL}, {1380}, {25}, {3600}, {0}, MaxNowConfig)

\* CMD:SET_<parameter>:<value> on the supervisor link
SerialSetArg(parameter, value) ==
  /\ LET r == handleSetCommand(build, [s |-> g, p |-> prefs], parameter, value)
     IN  g' = r.s /\ prefs' = r.p
  /\ UNCHANGED <<build, now>>

SerialSet ==
  \E parameter \in SetParameters : \E value \in SetArgs(parameter) :
    SerialSetArg(parameter, value)

\* POST /update with every field present
HttpUpdate ==
  \E f \in UpdateForms :
    /\ LET r == WebUpdate([s |-> g, p |-> prefs], f)
       IN  g' = r.s /\ prefs' = r.p
    /\ UNCHANGED <<build, now>>

NextConfig ==
  \/ ConfigTick
  \/ SerialSet
  \/ HttpUpdate
SpecConfig == InitConfig /\ [][NextConfig]_vars

\* The supervisor link byte by byte: lines of LinkCommands, alone or after
\* LinkFillers bytes of padding on the same line, read by handleSerialCommands
\* between the ticks up to MaxNowLink ms (13.80 V, 25 Celsius, no current).
MaxNowLink == 3000
LinkFillers == {0, 190, 201}
LinkCommands ==
  {CMD_ \o CANCEL_TEMP_OFF,
   CMD_ \o TOGGLE_LOAD_ \o <<"5">>,
   CMD_ \o GET_DATA,
   CMD_ \o SET_ \o <<"f", "a", "c", "t", "o", "r", "D", "i", "v", "i", "d", "e", "r", ":", "2">>,
   CMD_ \o <<"R", "E", "S", "E", "T">>,
   <<"P", "I", "N", "G">>}

LinkTick ==
  TickWith({MAIN_LOOP_INTERVAL}, {1380}, {25}, {0}, {0}, MaxNowLink)

\* the supervisor writes one line, which the UART receives whole
LinkSend ==
  \E k \in LinkFillers, command \in LinkCommands :
    /\ g.uartRx = <<>>
    /\ g' = [g EXCEPT !.uartRx = [i \in 1..k |-> "x"] \o command \o <<"\n">>]
    /\ UNCHANGED <<build, now, prefs>>

\* the call of handleSerialCommands() at the top of loop()
LinkPoll ==
  /\ LET r == handleSerialCommands(build, [s |-> g, p |-> prefs], now)
     IN  g' = r.s /\ prefs' = r.p
  /\ UNCHANGED <<build, now>>

NextLink ==
  \/ LinkTick
  \/ LinkSend
  \/ LinkPoll
SpecLink == InitConfig /\ [][NextLink]_vars

\* The bulk stage with its tunables changed between the ticks: a first boot at
\* 12.30 V, ticks up to MaxNowStage ms that read 12.30 V or 14.20 V with a
\* panel current of 2 A or 7 A, and CMD:SET_bulkVoltage / SET_maxAllowedCurrent
\* and POST /update in between.
MaxNowStage == 4000
InitStage ==
  /\ build \in Builds
  /\ now = BootTime
  /\ prefs = FreshPrefs
  /\ g = Setup(build, prefs, 1230, 25)

StageTick ==
  TickWith({MAIN_LOOP_INTERVAL}, {1230, 1420}, {25}, {2000, 7000}, {0}, MaxNowStage)

NextStage ==
  \/ StageTick
  \/ \E parameter \in {"bulkVoltage", "maxAllowedCurrent"} :
       \E value \in SetArgs(parameter) : SerialSetArg(parameter, value)
  \/ HttpUpdate
SpecStage == InitStage /\ [][NextStage]_vars

\* ---------------------------------------------------------------- held battery
\* sixty ticks after a boot at 12.30 V: the battery held at 12.30 V, the panel
\* at 2000 mA, the load drawing nothing or 500 mA
MaxNowHold == 61000

HoldTick ==
  TickWith({MAIN_LOOP_INTERVAL}, {1230}, {25}, {2000}, {0, 500}, MaxNowHold)

SpecHold == InitStage /\ [][HoldTick]_vars

\* ---------------------------------------------------------------- absorption
\* four ticks after a boot at 12.30 V, the battery at 12.30 V or 14.50 V, the
\* panel at 400 mA or 3600 mA; the capacity may be set to 10 Ah
MaxNowAbsorb == 5000

NextAbsorb ==
  \/ TickWith({MAIN_LOOP_INTERVAL}, {1230, 1450}, {25}, {400, 3600}, {0}, MaxNowAbsorb)
  \/ SerialSetArg("batteryCapacity", 10)

SpecAbsorb == InitStage /\ [][NextAbsorb]_vars

\* ---------------------------------------------------------------- alarms
\* ten seconds after a healthy boot, with readings on either side of the
\* shutdown thresholds and loop iterations of 1 s or 1.5 s
MaxNowAlarm == 11000

AlarmTick ==
  TickWith({1000, 1500}, {1380, 1500}, {25, 95}, {3600}, {0}, MaxNowAlarm)

SpecAlarm == InitConfig /\ [][AlarmTick]_vars

\* ---------------------------------------------------------------- hysteresis
\* two ticks after any boot, the battery below the band of the load pin, at
\* its two ends, or above it; the supervisor may switch the load off
MaxNowBand == 3000

NextBand ==
  \/ TickWith({MAIN_LOOP_INTERVAL}, {1150, 1200, 1250, 1380}, Temps, {0}, {0}, MaxNowBand)
  \/ SerialToggleLoad

SpecBand == Init /\ [][NextBand]_vars

\* The configuration alone: any sequence of CMD:SET_ commands and POST /update
\* requests after boot. A posted field is what toFloat makes of its text, so
\* "0", an empty field or a text that is not a number all arrive as 0.
PostedForms ==
  UpdateForms \cup
  {[batteryCapacity |-> 0, thresholdPercentage |-> 10, maxAllowedCurrent |-> 6000,
    bulkVoltage |-> 1440, absorptionVoltage |-> 1440, floatVoltage |-> 1360,
    isLithium |-> FALSE, useFuenteDC |-> FALSE, fuenteDC_Amps |-> 0]}
HttpPost ==
  \E f \in PostedForms :
    /\ LET r == WebUpdate([s |-> g, p |-> prefs], f)
       IN  g' = r.s /\ prefs' = r.p
    /\ UNCHANGED <<build, now>>
NextForm ==
  \/ SerialSet
  \/ HttpPost
SpecForm == InitConfig /\ [][NextForm]_vars

\* ---------------------------------------------------------------- panel loss
\* nine seconds after a boot at 12.30 V, the panel current on either side of
\* the 10 mA of the low-current validation
MaxNowPanel == 10000

PanelTick ==
  TickWith({MAIN_LOOP_INTERVAL}, {1230}, {25}, {10, 11}, {0}, MaxNowPanel)

SpecPanel == InitStage /\ [][PanelTick]_vars

\* ---------------------------------------------------------------- restart
\* a controller fed by a DC source of 10 A (50 Ah: five hours of Bulk), booted
\* at 13.80 V, whose battery then reads 12.30 V; it may be restarted at any
\* time, which runs setup() again with millis() back at its start
MaxNowRestart == 34000

InitRestart ==
  /\ build \in Builds
  /\ now = BootTime
  /\ prefs = PutPref(PutPref(FreshPrefs, "useFuenteDC", TRUE), "fuenteDC_Amps", 10)
  /\ g = Setup(build, prefs, 1380, 25)

Restart ==
  /\ now > BootTime
  /\ now' = BootTime
  /\ g' = Setup(build, prefs, 1230, 25)
  /\ UNCHANGED <<build, prefs>>

NextRestart ==
  \/ TickWith({MAIN_LOOP_INTERVAL}, {1230}, {25}, {3600}, {0}, MaxNowRestart)
  \/ Restart

SpecRestart == InitRestart /\ [][NextRestart]_vars

\* ---------------------------------------------------------------- the sketch
\* cargador_gel_litio.ino: the loop of part_002 around the control functions
\* of part_001, with its own case ERROR. g.errorWait tells that the loop is
\* inside the while of case ERROR.
INO == "cargador_gel_litio.ino"

\* case ERROR: load off, setPWM(20), then the while on the temperature of the
\* previous iteration and the battery voltage
Ino_CaseError(s, batteryVoltage) ==
  LET s1 == [s EXCEPT !.loadPin = LOW, !.ledcDuty = setPWM(20)]
  IN  IF s1.temperature >= TEMP_THRESHOLD_SHUTDOWN
         \/ batteryVoltage >= maxBatteryVoltageAllowed
      THEN [s1 EXCEPT !.errorWait = TRUE]
      ELSE [s1 EXCEPT !.currentState = ABSORPTION_CHARGE]

Ino_updateChargeState(sp, batteryVoltage, chargeCurrent, t) ==
  LET s0 == IF batteryVoltage >= maxBatteryVoltageAllowed
            THEN [sp.s EXCEPT !.currentState = ERROR] ELSE sp.s
      sp0 == [sp EXCEPT !.s = s0]
  IN  CASE s0.currentState = BULK_CHARGE ->
             CaseBulk(sp0, batteryVoltage, chargeCurrent, t)
        [] s0.currentState = ABSORPTION_CHARGE ->
             CaseAbsorption(P1, sp0, batteryVoltage, chargeCurrent, t)
        [] s0.currentState = FLOAT_CHARGE ->
             [sp0 EXCEPT !.s = CaseFloatWith(s0, batteryVoltage, chargeCurrent, -5)]
        [] s0.currentState = ERROR ->
             [sp0 EXCEPT !.s = Ino_CaseError(s0, batteryVoltage)]

\* what loop() does after updateChargeState has returned
Ino_loopTail(s, t, temp) ==
  checkLoadOffTimer(P1_TemperatureCheck(RecomputeMaxBulkHours(s), temp), t)

\* loop() at time t with readings v, temp, ip, il; it stops inside
\* updateChargeState when case ERROR has to wait
Ino_loop(sp, t, v, temp, ip, il) ==
  LET s1 == P1_updateAhTracking(sp.s, t)
      sp2 == saveChargingState([sp EXCEPT !.s = s1], t)
      s3 == ReadSensors(sp2.s, v, ip, il)
      s4 == IF ip <= 10 /\ s3.currentPWM # 0 THEN [s3 EXCEPT !.currentPWM = 0] ELSE s3
      s5 == P2_LoadControl(s4, v, t)
      s6 == ReEntryCheck(s5, v, t)
      sp7 == Ino_updateChargeState([sp2 EXCEPT !.s = s6], v, ip, t)
  IN  IF sp7.s.errorWait THEN sp7
      ELSE [sp7 EXCEPT !.s = Ino_loopTail(sp7.s, t, temp)]

\* five seconds of the sketch after a healthy boot at 13.80 V, with readings
\* on either side of the shutdown thresholds
MaxNowIno == 6000

InitIno ==
  /\ build = INO
  /\ now = BootTime
  /\ prefs = FreshPrefs
  /\ g = [Setup(P1, prefs, 1380, 25) EXCEPT !.ledcDuty = setPWM(10)]

\* one iteration of loop(), which ends with delay(1000)
InoTick ==
  \E v \in {1380, 1500}, temp \in {25, 95} :
    /\ ~g.errorWait
    /\ now + MAIN_LOOP_INTERVAL <= MaxNowIno
    /\ now' = now + MAIN_LOOP_INTERVAL
    /\ LET r == Ino_loop([s |-> g, p |-> prefs], now', v, temp, 3600, 0)
       IN  g' = r.s /\ prefs' = r.p
    /\ UNCHANGED build

\* one pass of the while of case ERROR: three delays of 100 ms, then the
\* battery voltage is read again; the temperature is not
InoErrorWait ==
  \E v \in {1380, 1500}, temp \in {25, 95} :
    /\ g.errorWait
    /\ now + 300 <= MaxNowIno
    /\ now' = now + 300
    /\ g' = IF g.temperature >= TEMP_THRESHOLD_SHUTDOWN \/ v >= maxBatteryVoltageAllowed
            THEN g
            ELSE Ino_loopTail([g EXCEPT !.errorWait = FALSE,
                                        !.currentState = ABSORPTION_CHARGE], now', temp)
    /\ UNCHANGED <<build, prefs>>

\* a command of the supervisor, taken by handleSerialCommands() in loop()
InoCommand ==
  /\ ~g.errorWait
  /\ SerialToggleLoad

NextIno ==
  \/ InoTick
  \/ InoErrorWait
  \/ InoCommand

SpecIno == InitIno /\ [][NextIno]_vars

\* ================================================================ properties
\* ---------------------------------------------------------------- PWM range
\* C1: in every reachable state currentPWM is within [0, 255], and the value
\* last written to the PWM channel is 255 - d for some duty d within [0, 255].
PwmWithinRange ==
  /\ g.currentPWM \in 0..255
  /\ \E d \in 0..255 : g.ledcDuty = 255 - d

\* C1 is exercised where the constrain acts: the first tick of the part_002
\* build (whose duty is 0 after setup) ran the float law with a negative step.
PwmClampedAtBottom ==
  /\ build = P2
  /\ now = BootTime + MAIN_LOOP_INTERVAL
  /\ g.adjustCalls = 1
  /\ g.currentState = FLOAT_CHARGE
  /\ g.voltageBatterySensor2 > g.floatVoltage
  /\ g.panelToBatteryCurrent > 5
  /\ g.currentPWM = 0
  /\ g.ledcDuty = 255

\* ---------------------------------------------------------------- safety faults
\* the tick just taken by the part_002 build made the fifth consecutive
\* over-voltage check that read 15.0 V or more (the counter wrapped to 0)
FifthOverVoltageCheck ==
  /\ build = P2
  /\ now > BootTime
  /\ g.lastVoltageCheck = now
  /\ g.voltageBatterySensor2 >= maxBatteryVoltageAllowed
  /\ g.voltageErrorCount = 0

ErrorAndLoadOff == g.currentState = ERROR /\ g.loadPin = LOW

\* C2: when the battery voltage read 15.0 V or more at 5 consecutive
\* over-voltage checks, the state is Error and the load pin is OFF at the end
\* of the tick of the fifth check, or at the latest at the end of the next tick.
OverVoltageShutsDown ==
  [][FifthOverVoltageCheck /\ now' # now
       => ErrorAndLoadOff \/ ErrorAndLoadOff']_vars

\* C3: at the end of every tick and after every command of the part_002 build,
\* ChargeState = Error implies that the load pin is OFF.
ErrorImpliesLoadOff ==
  build = P2 /\ g.currentState = ERROR => g.loadPin = LOW

\* C4: a tick that starts with no temporary load-off active and reads a battery
\* voltage below 12.0 V or above 15.0 V ends with the load pin OFF.
LvdCutsLoad ==
  [][now' # now /\ ~g.temporaryLoadOff
       /\ (g'.voltageBatterySensor2 < LVD
           \/ g'.voltageBatterySensor2 > maxBatteryVoltageAllowed)
       => g'.loadPin = LOW]_vars

\* C4 is exercised by a tick without load-off that read more than 15.0 V.
LoadCutByOverVoltage ==
  /\ now > BootTime
  /\ ~g.temporaryLoadOff
  /\ g.lastUpdateTime = now
  /\ g.voltageBatterySensor2 > maxBatteryVoltageAllowed
  /\ g.loadPin = LOW

\* C5: with the temperature below 90 Celsius and the battery within
\* [12.0 V, 15.0 V) at every tick since boot, the part_002 build has left Error
\* once two recheck intervals have passed.
ErrorRecovers ==
  build = P2 /\ now >= BootTime + 2 * ERROR_CHECK_INTERVAL
    => g.currentState # ERROR

\* C6: the state changes from Error only to Absorption, and only in a tick
\* that read a temperature below 90 Celsius and a voltage within [12.0 V, 15.0 V).
ErrorIsSticky ==
  [][g.currentState = ERROR /\ g'.currentState # ERROR
       => /\ g'.currentState = ABSORPTION_CHARGE
          /\ g'.temperature < TEMP_THRESHOLD_SHUTDOWN
          /\ g'.voltageBatterySensor2 >= 1200
          /\ g'.voltageBatterySensor2 < maxBatteryVoltageAllowed]_vars

\* C7: at the end of every tick that the part_002 build ends in Error, the
\* value on the PWM channel is that of the tickle duty 20.
ErrorDutyIsTickle ==
  build = P2 /\ now > BootTime /\ g.currentState = ERROR
    => g.ledcDuty = setPWM(20)

\* ---------------------------------------------------------------- temporary load-off
\* C8: CMD:TOGGLE_LOAD:x leaves the timer active with start = now and
\* duration = clamp(x, 1, 28800) s, and the load pin OFF, whatever x.
ToggleLoadClamps ==
  [][\A x \in ToggleArgs :
       SerialToggleLoadArg(x)
         => /\ g'.temporaryLoadOff
            /\ g'.loadOffStartTime = now
            /\ g'.loadOffDuration = constrain(x, 1, MAX_LOAD_OFF_SECONDS) * 1000
            /\ g'.loadPin = LOW]_vars

\* C9: in every reachable state loadOffDuration is at most 28,800,000 ms.
LoadOffDurationBounded == g.loadOffDuration <= MAX_LOAD_OFF_DURATION

\* C10: in every reachable state an active load-off timer implies that the
\* load pin is OFF.
LoadOffHoldsPinLow == g.temporaryLoadOff => g.loadPin = LOW

\* C10 is exercised by a tick taken while the timer runs with a voltage at
\* which the LVR rule would turn the load on.
LoadOffOutlastsTick ==
  /\ g.temporaryLoadOff
  /\ now > g.loadOffStartTime
  /\ g.voltageBatterySensor2 > LVR
  /\ g.voltageBatterySensor2 < maxBatteryVoltageAllowed
  /\ g.loadPin = LOW

\* the tick now -> now' finds the active load-off timer run out
LoadOffExpires ==
  /\ now' # now
  /\ g.temporaryLoadOff
  /\ USub(now', g.loadOffStartTime) >= Min(g.loadOffDuration, MAX_LOAD_OFF_DURATION)

\* C11: the tick that finds the load-off timer run out clears it, and ends with
\* the load pin ON exactly when the voltage it read is within (12.5 V, 15.0 V).
LoadOffExpiryRespectsLvr ==
  [][LoadOffExpires
       => /\ ~g'.temporaryLoadOff
          /\ g'.loadPin = HIGH
               <=> (g'.voltageBatterySensor2 > LVR
                    /\ g'.voltageBatterySensor2 < maxBatteryVoltageAllowed)]_vars

\* C12: CMD:CANCEL_TEMP_OFF with the timer active clears it, and does not turn
\* the load pin ON when the last voltage read is below 12.0 V or above 15.0 V.
CancelRespectsLvd ==
  [][SerialCancelTempOff /\ g.temporaryLoadOff /\ g.lastUpdateTime > 0
       => /\ ~g'.temporaryLoadOff
          /\ (g.voltageBatterySensor2 < LVD
              \/ g.voltageBatterySensor2 > maxBatteryVoltageAllowed)
               => g'.loadPin = LOW]_vars

\* ---------------------------------------------------------------- tunables
\* C13: in every reachable state floatVoltage <= absorptionVoltage <=
\* bulkVoltage <= 15.0 V.
StageVoltagesOrdered ==
  /\ g.floatVoltage <= g.absorptionVoltage
  /\ g.absorptionVoltage <= g.bulkVoltage
  /\ g.bulkVoltage <= maxBatteryVoltageAllowed

\* the value lies outside the range the specification gives for the parameter
OutOfRange(parameter, value) ==
  CASE parameter = "batteryCapacity" -> ~(value > 0 /\ value <= 1000)
    [] parameter = "thresholdPercentage" -> ~(value >= 1 /\ value <= 50)
    [] parameter = "maxAllowedCurrent" -> ~(value >= 1000 /\ value <= 15000)
    [] parameter \in {"bulkVoltage", "absorptionVoltage", "floatVoltage"} ->
         ~(value >= 1200 /\ value <= 1500)
    [] parameter = "fuenteDC_Amps" -> ~(value >= 0 /\ value <= 50)
    [] parameter = "factorDivider" -> ~(value >= 1 /\ value <= 10)
    [] OTHER -> FALSE

DerivedValuesCurrent(s) ==
  /\ s.absorptionCurrentThreshold_mA = s.batteryCapacity * s.thresholdPercentage
  /\ s.currentLimitIntoFloatStage
       = s.absorptionCurrentThreshold_mA \div s.factorDivider
  /\ s.maxBulkHours = MaxBulkHours(s)

\* C15: after an accepted CMD:SET_ of batteryCapacity, thresholdPercentage,
\* factorDivider, useFuenteDC or fuenteDC_Amps, and before the next tick, the
\* two current thresholds and maxBulkHours equal their formulas.
DerivedValuesFollowSet ==
  [][\A parameter \in {"batteryCapacity", "thresholdPercentage", "factorDivider",
                       "useFuenteDC", "fuenteDC_Amps"} :
       \A value \in SetArgs(parameter) :
         SerialSetArg(parameter, value) /\ g'.response = "OK"
           => DerivedValuesCurrent(g')]_vars

\* C16: the two current thresholds that setup() derives from the stored
\* preferences at the next boot are those in use before the restart, in every
\* state reached by accepted CMD:SET_ commands.
DerivedValuesSurviveRestart ==
  LET reloaded == Setup(build, prefs, 1380, 25)
  IN  /\ reloaded.absorptionCurrentThreshold_mA = g.absorptionCurrentThreshold_mA
      /\ reloaded.currentLimitIntoFloatStage = g.currentLimitIntoFloatStage

\* ---------------------------------------------------------------- coulomb counter
\* C17: in every reachable state accumulatedAh is within
\* [0, 1.1 x batteryCapacity].
AccumulatedAhWithinCapacity ==
  /\ g.accumulatedAh >= 0
  /\ g.accumulatedAh <= OverchargeLimit(g.batteryCapacity)

\* the largest change of accumulatedAh (micro-Ah) that a current of 1C makes
\* in dt ms with the capacity cap (Ah)
OneCRateDelta(cap, dt) == (cap * 10 * dt) \div 36

\* C18: no step changes accumulatedAh by more than the 1C-rate delta of the
\* time it takes, whichever operation wrote it.
AccumulatedAhRateLimited ==
  [][LET delta == g'.accumulatedAh - g.accumulatedAh
         limit == OneCRateDelta(Max(g.batteryCapacity, g'.batteryCapacity),
                                now' - now)
     IN  delta <= limit /\ -delta <= limit]_vars

\* C19: an accepted CMD:SET_batteryCapacity of the part_002 build keeps
\* accumulatedAh when it is within [0, 110 %] of the new capacity, sets it to
\* 110 % of the new capacity when it is above and to 0 when it is negative, and
\* stores the result in the preferences together with the new capacity.
CapacityChangeKeepsEnergy ==
  [][\A value \in SetArgs("batteryCapacity") :
       build = P2 /\ SerialSetArg("batteryCapacity", value) /\ g'.response = "OK"
         => /\ g'.batteryCapacity = value
            /\ g'.accumulatedAh =
                 (IF g.accumulatedAh > 1100000 * value THEN 1100000 * value
                  ELSE IF g.accumulatedAh < 0 THEN 0
                  ELSE g.accumulatedAh)
            /\ GetPref(prefs', "batteryCap", 50) = value
            /\ GetPref(prefs', "accumulatedAh", -1) = g'.accumulatedAh]_vars

\* C19 is exercised where the limit acts: the capacity was lowered to 10 Ah
\* with more than 11 Ah stored, and both values are in the preferences.
EnergyLimitedToNewCapacity ==
  /\ build = P2
  /\ g.response = "OK"
  /\ g.batteryCapacity = 10
  /\ g.accumulatedAh = 11000000
  /\ GetPref(prefs, "batteryCap", 50) = 10
  /\ GetPref(prefs, "accumulatedAh", -1) = 11000000

\* ---------------------------------------------------------------- framing
\* C20: the call of handleSerialCommands that reads the newline of a line of
\* more than 200 bytes executes nothing: it changes no state but that of the
\* reader itself, and writes no response.
OverlongLineIsDiscarded ==
  [][LET consumed == Len(g.uartRx) - Len(g'.uartRx)
     IN  consumed > 0 /\ g'.lineBytes = 0
           /\ g.lineBytes + consumed - 1 > MaxLineLength
         => /\ g' = [g EXCEPT !.uartRx = g'.uartRx, !.serialBuffer = <<>>,
                              !.lineBytes = 0]
            /\ prefs' = prefs]_vars

\* C21: the call of handleSerialCommands that reads the newline of a line (of
\* at most 200 bytes) leaves a response on the link: DATA:{...} when the line
\* is CMD:GET_DATA, OK:... or ERROR:... for every other line.
EveryLineIsAnswered ==
  [][LET consumed == Len(g.uartRx) - Len(g'.uartRx)
         line == trim(g.serialBuffer \o SubSeq(g.uartRx, 1, consumed - 1))
     IN  consumed > 0 /\ g'.lineBytes = 0
           /\ g.lineBytes + consumed - 1 <= MaxLineLength
         => IF line = CMD_ \o GET_DATA THEN g'.response = "DATA"
            ELSE g'.response \in {"OK", "ERROR"}]_vars

\* ---------------------------------------------------------------- boot
\* C22: setup() with a temperature below 90 Celsius and a voltage below 15.0 V
\* ends in Float when the voltage is at least 12.88 V and the chemistry flag
\* loaded from the preferences is false, in Absorption when it is at least
\* 12.88 V and the flag is true, and in Bulk below 12.88 V.
BootStateFollowsChemistry ==
  now = BootTime
    => \A v \in Volts, temp \in Temps :
         g = Setup(build, prefs, v, temp)
           /\ temp < TEMP_THRESHOLD_SHUTDOWN /\ v < maxBatteryVoltageAllowed
         => g.currentState =
              (IF v < chargedBatteryRestVoltage THEN BULK_CHARGE
               ELSE IF g.isLithium THEN ABSORPTION_CHARGE ELSE FLOAT_CHARGE)

\* C23: setup() of the part_002 build with a temperature of 90 Celsius or more,
\* or a voltage of 15.0 V or more, ends in Error with the load pin OFF.
UnsafeBootIsBlocked ==
  build = P2 /\ now = BootTime
    => \A v \in Volts, temp \in Temps :
         g = Setup(build, prefs, v, temp)
           /\ (temp >= TEMP_THRESHOLD_SHUTDOWN \/ v >= maxBatteryVoltageAllowed)
         => g.currentState = ERROR /\ g.loadPin = LOW

\* C23 is exercised by a boot at 95 Celsius with the battery at 13.80 V, where
\* the voltage alone would select Float and turn the load on.
HotBootBlocked ==
  /\ build = P2
  /\ now = BootTime
  /\ g = Setup(P2, prefs, 1380, 95)
  /\ g.currentState = ERROR
  /\ g.loadPin = LOW

\* ---------------------------------------------------------------- commands and ticks
\* the tunables and the state of the supervisor link
CommandState(s) ==
  <<s.batteryCapacity, s.thresholdPercentage, s.maxAllowedCurrent, s.bulkVoltage,
    s.absorptionVoltage, s.floatVoltage, s.isLithium, s.useFuenteDC,
    s.fuenteDC_Amps, s.factorDivider, s.response, s.serialBuffer, s.uartRx>>

\* C24: a tick runs no command handler between its readings and its PWM write
\* (it leaves the tunables, the preferences of the tunables and the link as
\* they were), and it works with the tunables as the commands before it left
\* them: in Bulk without DC source the duty moves by -5 when the current read
\* exceeds maxAllowedCurrent, else by +1 when the voltage read is below
\* bulkVoltage, else by -1, and the state becomes Absorption exactly when the
\* voltage read is at least bulkVoltage.
TickUsesTunablesInPlace ==
  [][now' # now
       => /\ CommandState(g') = CommandState(g)
          /\ g.currentState = BULK_CHARGE /\ ~g.useFuenteDC
               => /\ g'.currentPWM =
                       constrain(g.currentPWM
                                   + (IF g'.panelToBatteryCurrent > g.maxAllowedCurrent
                                      THEN -5
                                      ELSE IF g'.voltageBatterySensor2 < g.bulkVoltage
                                      THEN 1 ELSE -1), 0, 255)
                  /\ g'.currentState = ABSORPTION_CHARGE
                       <=> g'.voltageBatterySensor2 >= g.bulkVoltage]_vars

\* C24 is exercised by a tick whose outcome the command before it decided:
\* bulkVoltage was set to 14.00 V, and the tick that read 14.20 V (below the
\* 14.40 V of a first boot) entered Absorption.
TickAfterSetBulkVoltage ==
  /\ g.bulkVoltage = 1400
  /\ GetPref(prefs, "bulkV", 1440) = 1400
  /\ g.voltageBatterySensor2 = 1420
  /\ g.currentState = ABSORPTION_CHARGE
  /\ g.absorptionStartTime = now

\* ---- C25
\* the breakpoints of the table: <<centivolts, 1/1000 percent>>
SocBreakpoints ==
  << <<1150, 5000>>, <<1180, 10000>>, <<1200, 20000>>, <<1240, 40000>>,
     <<1280, 60000>>, <<1320, 80000>>, <<1380, 95000>>, <<1440, 100000>> >>

SocProbeVolts == 1100 .. 1500

\* C25: the state of charge estimated from the voltage never decreases as the
\* voltage rises and stays within 0..100 %; it is 0 below 11.5 V, 100 % from
\* 14.4 V on, and between two consecutive breakpoints it is the point of the
\* straight line through them (to the resolution of 1/1000 %); examined at
\* boot, where part_002 without a stored charge takes its estimate from it.
SocTableIsMonotoneInterpolation ==
  now = BootTime =>
    /\ \A v \in SocProbeVolts :
         LET soc == getSOCFromVoltage(v)
         IN /\ soc >= 0 /\ soc <= 100000
            /\ v + 1 \in SocProbeVolts => soc <= getSOCFromVoltage(v + 1)
            /\ v < 1150 => soc = 0
            /\ v >= 1440 => soc = 100000
            /\ \A i \in 1 .. Len(SocBreakpoints) - 1 :
                 LET lo == SocBreakpoints[i]
                     hi == SocBreakpoints[i + 1]
                     exact == lo[2] * (hi[1] - lo[1]) + (v - lo[1]) * (hi[2] - lo[2])
                 IN v >= lo[1] /\ v < hi[1]
                      => /\ soc * (hi[1] - lo[1]) <= exact
                         /\ exact < (soc + 1) * (hi[1] - lo[1])
    /\ build = P2
         => \E v \in Volts : g.accumulatedAh = g.batteryCapacity * 10 * getSOCFromVoltage(v)

\* part_002 booted at 12.30 V without a stored charge: 35 % of 50 Ah
BootEstimatesFromTable ==
  /\ build = P2
  /\ now = BootTime
  /\ "accumulatedAh" \notin DOMAIN prefs
  /\ g = Setup(P2, prefs, 1230, 25)
  /\ g.accumulatedAh = 17500000

\* ---- C26
\* C26: from a boot in Bulk with duty 0 and GEL chemistry, with the battery held
\* at 12.30 V (below the bulk voltage) and the panel at 2000 mA (not above the
\* allowed current), every tick raises the duty by exactly 1 and the state
\* stays Bulk: the duty equals the number of ticks since boot, 1 after the
\* first and 60 after the sixtieth.
BulkRaisesDutyOnePerTick ==
  /\ g.currentState = BULK_CHARGE
  /\ ~g.isLithium
  /\ g.currentPWM = (now - BootTime) \div MAIN_LOOP_INTERVAL
  /\ now > BootTime => g.ledcDuty = 255 - g.currentPWM

\* the sixtieth tick has run and the duty is 60
DutySixtyAfterSixtyTicks ==
  /\ now = BootTime + 60 * MAIN_LOOP_INTERVAL
  /\ g.currentState = BULK_CHARGE
  /\ g.voltageBatterySensor2 = 1230
  /\ g.panelToBatteryCurrent = 2000
  /\ g.currentPWM = 60

\* ---- C27
\* C27: after boot, part_002 enters Error only on confirmation. The voltage is
\* validated when at least 1 s has passed since the previous validation, the
\* temperature when at least 2 s have passed; a validation at or above the
\* threshold (15.0 V, 90 Celsius) counts one more, a validation below it
\* resets the count to 0, and the state becomes Error only at a validation
\* that is the fifth in a row at or above its threshold.
ErrorOnlyOnConfirmation ==
  [][build = P2 =>
       LET voltageDue == USub(now', g.lastVoltageCheck) >= CHECK_INTERVAL
           voltageHigh == g'.voltageBatterySensor2 >= maxBatteryVoltageAllowed
           tempDue == USub(now', g.lastTempCheck) >= TEMP_CHECK_INTERVAL
           tempHigh == g'.temperature >= TEMP_THRESHOLD_SHUTDOWN
           voltageFifth == voltageDue /\ voltageHigh /\ g.voltageErrorCount = 4
           tempFifth == tempDue /\ tempHigh /\ g.tempErrorCount = 4
       IN  now' > now =>
             /\ g.currentState # ERROR /\ g'.currentState = ERROR
                  => voltageFifth \/ tempFifth
             /\ g'.voltageErrorCount =
                  (IF ~voltageDue THEN g.voltageErrorCount
                   ELSE IF ~voltageHigh \/ voltageFifth THEN 0
                   ELSE g.voltageErrorCount + 1)
             /\ g'.tempErrorCount =
                  (IF ~tempDue THEN g.tempErrorCount
                   ELSE IF ~tempHigh \/ tempFifth THEN 0
                   ELSE g.tempErrorCount + 1)
             /\ g'.lastVoltageCheck = (IF voltageDue THEN now' ELSE g.lastVoltageCheck)
             /\ g'.lastTempCheck = (IF tempDue THEN now' ELSE g.lastTempCheck)
             /\ g.voltageErrorCount \in 0 .. 4
             /\ g.tempErrorCount \in 0 .. 4]_vars

\* part_002 in Error after the fifth temperature validation in a row at
\* 95 Celsius, ten seconds after a healthy boot, the voltage never high
TempConfirmedAtFifthCheck ==
  /\ build = P2
  /\ now = 10000
  /\ g.currentState = ERROR
  /\ g.temperature = 95
  /\ g.lastTempCheck = 10000
  /\ g.tempErrorCount = 0
  /\ g.voltageErrorCount = 0
  /\ g.voltageBatterySensor2 = 1380

\* ---- C28
\* C28: whenever a tick that starts in Bulk reads a battery voltage at or above
\* the bulk voltage (and below the 15.0 V of the over-voltage alarm, at a
\* temperature below the 90 Celsius of the over-temperature alarm), the state
\* becomes Absorption, absorptionStartTime is the time of the tick,
\* bulkStartTime is 0 and the stored bulkStartTime is 0.
BulkToAbsorptionByVoltage ==
  [][(/\ now' > now
      /\ g.currentState = BULK_CHARGE
      /\ g'.voltageBatterySensor2 >= g.bulkVoltage
      /\ g'.voltageBatterySensor2 < maxBatteryVoltageAllowed
      /\ g'.temperature < TEMP_THRESHOLD_SHUTDOWN)
       => /\ g'.currentState = ABSORPTION_CHARGE
          /\ g'.absorptionStartTime = now'
          /\ g'.bulkStartTime = 0
          /\ "bulkStartTime" \in DOMAIN prefs'
          /\ prefs'.bulkStartTime = 0]_vars

\* Absorption entered by voltage at the third tick after two ticks of Bulk:
\* the bulk stamp of the first tick is cleared in memory and in the store
AbsorptionEnteredByVoltage ==
  /\ now = 4000
  /\ g.currentState = ABSORPTION_CHARGE
  /\ g.voltageBatterySensor2 = 1420
  /\ g.bulkVoltage = 1400
  /\ g.currentPWM = 1
  /\ g.absorptionStartTime = 4000
  /\ g.bulkStartTime = 0
  /\ GetPref(prefs, "bulkStartTime", 1) = 0

\* ---- C29
\* C29: with the DC source in use and its current above 0, a tick in Bulk that
\* reads a voltage below the bulk voltage moves to Absorption only when the
\* time spent in the current Bulk stage has reached maxBulkHours; the stage
\* began no earlier than the boot of the running controller, so the move
\* never comes sooner than maxBulkHours after that boot, a stage that follows
\* a restart included.
BulkTimeRunsFromStageEntry ==
  [][(/\ now' > now
      /\ g.currentState = BULK_CHARGE
      /\ g.useFuenteDC
      /\ g.fuenteDC_Amps > 0
      /\ g'.voltageBatterySensor2 < g.bulkVoltage
      /\ g'.currentState = ABSORPTION_CHARGE)
       => now' - BootTime >= MaxBulkHours(g) * 1000]_vars

\* ---- C30
\* the adjustment of the charge (micro-Ah) on entry to Float: a charge that
\* trails the estimate from the voltage by more than 10 points becomes 0.7 of
\* itself plus 0.3 of the estimate, otherwise one below 85 % becomes 85 %,
\* otherwise it is kept; the result stays within 0 .. 110 % of the capacity
ResetForFloat(ah, capacity, voltage) ==
  LET soc == ah \div (capacity * 10)
      estimate == getSOCFromVoltage(voltage)
      adjusted == IF soc < estimate - 10000
                  THEN ((soc * 7 + estimate * 3) \div 10) * capacity * 10
                  ELSE IF soc < 85000 THEN capacity * 850000
                  ELSE ah
  IN  Max(0, Min(adjusted, capacity * 1100000))

\* C30: in part_002, a tick that starts in Absorption with GEL chemistry (no
\* alarm reading, no re-entry to Bulk due) ends in Float, with the charge
\* adjusted as on entry to Float, when the net current (panel minus load) is
\* at or below absorptionCurrentThreshold_mA or the time in Absorption has
\* reached calculatedAbsorptionHours; when neither holds it ends in Absorption
\* with the charge as the integration of the tick left it.
AbsorptionToFloat ==
  [][(/\ build = P2
      /\ now' > now
      /\ g.currentState = ABSORPTION_CHARGE
      /\ ~g.isLithium
      /\ g'.voltageBatterySensor2 < maxBatteryVoltageAllowed
      /\ g'.temperature < TEMP_THRESHOLD_SHUTDOWN
      /\ ~(/\ g'.voltageBatterySensor2 < reEnterBulkVoltage
            /\ g.belowThreshold
            /\ USub(now', g.lowVoltageStart) >= reEnterTime))
       => LET net == g'.panelToBatteryCurrent - g'.batteryToLoadCurrent
              lowNet == net <= g.absorptionCurrentThreshold_mA
              timeUp == USub(now', g.absorptionStartTime)
                          >= g'.calculatedAbsorptionHours * 1000
              tracked == P2_updateAhTracking(g, now').accumulatedAh
          IN  IF lowNet \/ timeUp
              THEN /\ g'.currentState = FLOAT_CHARGE
                   /\ g'.accumulatedAh =
                        ResetForFloat(tracked, g.batteryCapacity, g'.voltageBatterySensor2)
              ELSE /\ g'.currentState = ABSORPTION_CHARGE
                   /\ g'.accumulatedAh = tracked]_vars

\* part_002 in Float after Absorption at 14.50 V ended on a net current of
\* 400 mA (threshold 500 mA): the charge of 35 % of 50 Ah, trailing the 100 %
\* of the voltage estimate, has become more than 27 Ah
FloatOnLowNetCurrent ==
  /\ build = P2
  /\ g.currentState = FLOAT_CHARGE
  /\ g.absorptionStartTime > 0
  /\ g.absorptionCurrentThreshold_mA = 500
  /\ g.panelToBatteryCurrent = 400
  /\ g.batteryToLoadCurrent = 0
  /\ g.voltageBatterySensor2 = 1450
  /\ g.batteryCapacity = 50
  /\ g.accumulatedAh > 27000000
  /\ g.accumulatedAh < 28000000

\* ---- C31
\* C31: with isLithium true no tick ends in Float. A tick that starts in
\* Absorption (no alarm reading, no re-entry to Bulk due) stays in Absorption
\* whatever the net current and the time in the stage, and with a net current
\* at or below the threshold the lithium duty law makes its adjustment after
\* the one of the absorption law; a tick that starts in Float leaves Float.
LithiumNeverFloats ==
  [][(now' > now /\ g.isLithium)
       => /\ g'.currentState # FLOAT_CHARGE
          /\ (/\ g.currentState = ABSORPTION_CHARGE
               /\ g'.voltageBatterySensor2 < maxBatteryVoltageAllowed
               /\ g'.temperature < TEMP_THRESHOLD_SHUTDOWN
               /\ ~(/\ g'.voltageBatterySensor2 < reEnterBulkVoltage
                     /\ g.belowThreshold
                     /\ USub(now', g.lowVoltageStart) >= reEnterTime))
              => /\ g'.currentState = ABSORPTION_CHARGE
                 /\ (g'.panelToBatteryCurrent - g'.batteryToLoadCurrent
                        <= g.absorptionCurrentThreshold_mA)
                      => g'.adjustCalls = 2]_vars

\* a lithium controller that booted in Float at 13.80 V, left Float at its
\* first tick and stays in Absorption at the second, which reads no panel
\* current: the lithium duty law has made the second adjustment of the tick
LithiumHeldInAbsorption ==
  /\ now = BootTime + 2 * MAIN_LOOP_INTERVAL
  /\ g.isLithium
  /\ g.currentState = ABSORPTION_CHARGE
  /\ g.voltageBatterySensor2 = 1380
  /\ g.panelToBatteryCurrent = 0
  /\ g.adjustCalls = 2

\* ---- C32
\* C32: after boot, the state changes from a state other than Bulk to Bulk only
\* in a tick that reads less than 12.6 V while the window of low readings,
\* open since a tick at least 30 s earlier, is still open. The window is open
\* exactly after a tick that read less than 12.6 V, it keeps the time of the
\* first of the low readings in a row, and one reading at or above 12.6 V
\* closes it, so that the next low reading starts a new one.
BulkReEntryOnlyAfterLowWindow ==
  [][/\ (g.currentState # BULK_CHARGE /\ g'.currentState = BULK_CHARGE)
          => /\ now' > now
             /\ g'.voltageBatterySensor2 < reEnterBulkVoltage
             /\ g.belowThreshold
             /\ now' - g.lowVoltageStart >= reEnterTime
     /\ now' > now
          => /\ g'.belowThreshold = (g'.voltageBatterySensor2 < reEnterBulkVoltage)
             /\ g'.lowVoltageStart =
                  (IF g'.voltageBatterySensor2 >= reEnterBulkVoltage THEN 0
                   ELSE IF g.belowThreshold THEN g.lowVoltageStart
                   ELSE now')
     /\ now' = now
          => /\ g'.belowThreshold = g.belowThreshold
             /\ g'.lowVoltageStart = g.lowVoltageStart]_vars

\* part_002 forced from Float back to Bulk at the tick of t = 32 s, after the
\* battery has read 12.30 V at every tick since t = 2 s
BulkReEnteredAfterThirtySeconds ==
  /\ build = P2
  /\ now = 32000
  /\ g.currentState = BULK_CHARGE
  /\ g.voltageBatterySensor2 = 1230
  /\ g.belowThreshold
  /\ g.lowVoltageStart = 2000
  /\ g.bulkStartTime = 32000

\* ---- C33
\* C33: calculatedAbsorptionHours is within 0 .. maxAbsorptionHours (1.0 h)
\* after every tick, for every accumulated charge within 0 .. 110 % of the
\* capacity and every net current.
AbsorptionHoursWithinRange ==
  /\ g.calculatedAbsorptionHours >= 0
  /\ g.calculatedAbsorptionHours <= maxAbsorptionHours

\* ---- C34
\* C34: in part_001, a tick that reads a panel current of 10 mA or less while
\* the duty is not 0 starts a validation with no confirmation counted; each
\* further such tick counts one confirmation, and the fifth zeroes the duty
\* (the duty law of that tick then starts from 0) and ends the validation;
\* a tick that reads more than 10 mA ends the validation and clears the count.
PanelLossConfirmed ==
  [][(build = P1 /\ now' > now)
       => LET low == g'.panelToBatteryCurrent <= 10
              due == USub(now', g.lastLowCurrentCheck) >= CONFIRMATION_INTERVAL
              fifth == g.lowCurrentConfirmations + 1 >= REQUIRED_CONFIRMATIONS
          IN  /\ ~low => ~g'.validatingLowCurrent /\ g'.lowCurrentConfirmations = 0
              /\ (low /\ g.currentPWM # 0 /\ ~g.validatingLowCurrent)
                   => g'.validatingLowCurrent /\ g'.lowCurrentConfirmations = 0
              /\ (low /\ g.currentPWM # 0 /\ g.validatingLowCurrent /\ due /\ ~fifth)
                   => /\ g'.validatingLowCurrent
                      /\ g'.lowCurrentConfirmations = g.lowCurrentConfirmations + 1
                      /\ g'.currentPWM >= g.currentPWM - 5 * g'.adjustCalls
              /\ (low /\ g.currentPWM # 0 /\ g.validatingLowCurrent /\ due /\ fifth)
                   => /\ ~g'.validatingLowCurrent
                      /\ g'.lowCurrentConfirmations = 0
                      /\ g'.currentPWM <= g'.adjustCalls
                      /\ g'.ledcDuty = 255 - g'.currentPWM
              /\ g.lowCurrentConfirmations \in 0 .. REQUIRED_CONFIRMATIONS - 1]_vars

\* part_001 at the tick of the fifth confirmation: the duty, 6 before the
\* tick, is 1 after it (zeroed, then raised once by the Bulk law)
DutyZeroedAtFifthConfirmation ==
  /\ build = P1
  /\ now = 8000
  /\ g.panelToBatteryCurrent = 10
  /\ ~g.validatingLowCurrent
  /\ g.lowCurrentConfirmations = 0
  /\ g.lastLowCurrentCheck = 8000
  /\ g.currentState = BULK_CHARGE
  /\ g.currentPWM = 1

\* ---- C35
\* C35: within a tick the supervisor checks come before the decision of the
\* state machine, so a tick whose temperature check puts the controller in
\* Error (the voltage below 15.0 V) has run no charging law: no duty
\* adjustment is made in it.
SupervisorBeforeStateMachine ==
  [][(/\ now' > now
      /\ g.currentState # ERROR
      /\ g'.currentState = ERROR
      /\ g'.temperature >= TEMP_THRESHOLD_SHUTDOWN
      /\ g'.voltageBatterySensor2 < maxBatteryVoltageAllowed)
       => g'.adjustCalls = 0]_vars

\* ---- C36
\* C36: every loop iteration ends without blocking: the handling of Error
\* never waits in a loop for the fault to clear, so the controller is in no
\* state held inside case ERROR, where it serves neither commands nor ticks.
ErrorNeverBlocksLoop ==
  ~g.errorWait

\* ---- C37
\* C37: in every tick spent in Bulk, in Absorption or in Float (the tick starts
\* and ends in that stage and reads no alarm value) the duty law of the stage
\* makes exactly one adjustment of the duty, whatever the voltage, the current
\* and the chemistry.
OneAdjustPerTick ==
  [][(/\ now' > now
      /\ g.currentState \in {BULK_CHARGE, ABSORPTION_CHARGE, FLOAT_CHARGE}
      /\ g'.currentState = g.currentState
      /\ g'.voltageBatterySensor2 < maxBatteryVoltageAllowed
      /\ g'.temperature < TEMP_THRESHOLD_SHUTDOWN)
       => g'.adjustCalls = 1]_vars

\* ---- C38
\* C38: a tick that reads a battery voltage within the band 12.0 V .. 12.5 V
\* (both ends included), with no temporary load-off active and the state not
\* Error, leaves the load pin as it was before the tick.
HysteresisBandKeepsPin ==
  [][(/\ now' > now
      /\ g'.voltageBatterySensor2 >= LVD
      /\ g'.voltageBatterySensor2 <= LVR
      /\ ~g.temporaryLoadOff
      /\ g.currentState # ERROR)
       => g'.loadPin = g.loadPin]_vars

\* a load pin that was off after a boot at 11.50 V and is still off after a
\* tick at 12.50 V, the upper end of the band
PinStaysOffAtLvr ==
  /\ now = BootTime + MAIN_LOOP_INTERVAL
  /\ g.voltageBatterySensor2 = LVR
  /\ g.loadPin = LOW
  /\ ~g.temporaryLoadOff
  /\ g.loadOffStartTime = 0
  /\ g.currentState = BULK_CHARGE

\* ---- C39
\* C39: absorptionStartTime holds the time of the most recent entry into
\* Absorption, whichever state it is entered from: every step that takes the
\* controller from another state into Absorption stamps it with the time of
\* that step, and no step within Absorption changes it.
AbsorptionStampedOnEveryEntry ==
  [][/\ (g.currentState # ABSORPTION_CHARGE /\ g'.currentState = ABSORPTION_CHARGE)
          => g'.absorptionStartTime = now'
     /\ (g.currentState = ABSORPTION_CHARGE /\ g'.currentState = ABSORPTION_CHARGE)
          => g'.absorptionStartTime = g.absorptionStartTime]_vars

\* ---- C40
\* C40: in every reachable state batteryCapacity is greater than 0 and
\* factorDivider is at least 1, whatever CMD:SET_ commands and POST /update
\* requests were received.
CapacityAndDividerPositive ==
  g.batteryCapacity > 0 /\ g.factorDivider >= 1

====
